---- MODULE Spec2Model ----
(***************************************************************************)
(* Background processing subsystem of fiyatradari: the distributed rate    *)
(* limiter, the price-check / deal-detection pipeline, the notification     *)
(* hand-off and the operator control of the scheduler.                      *)
(*                                                                          *)
(* Every subsystem has its own variables, its own initial predicate and     *)
(* its own next-state relation; a specification of one subsystem keeps the  *)
(* variables of the others at their initial value.                          *)
(***************************************************************************)
EXTENDS Integers, Sequences, FiniteSets, TLC

VARIABLES
    \* ---- rate limiter (services/amazon_client.py) ----
    \* Times are kept as ages and remaining lifetimes, in seconds, so that the
    \* state space is finite while time runs on for ever.
    lock,         \* redis key amazon_api_last_call:lock: seconds until it expires, 0 = absent
    key,          \* redis key amazon_api_last_call: time.time() minus the stored value,
                  \* KEY_EX = the key has expired or was never set
    rl,           \* per worker process: position in wait_if_needed
    sincePermit,  \* seconds since the most recent return of wait_if_needed (saturating)
    minGap        \* smallest gap seen between two returns of wait_if_needed (saturating)

rlvars == <<lock, key, rl, sincePermit, minGap>>

VARIABLES
    \* ---- deal detector as a function (services/deal_detector.py) ----
    an            \* the last call of analyze_product: its arguments and its result

anvars == <<an>>

VARIABLES
    \* ---- storage, queues and processes of the pipeline ----
    products,     \* table products: id -> row
    price_history, \* table price_history: product id -> its rows, oldest first
    deals,        \* table deals: the rows in id order (the id of a deal is its index)
    cq,           \* broker: number of queued check_product_price jobs per product
    cw,           \* per worker process: position in check_product_price
    nq,           \* broker: queued send_deal_notification jobs (deal ids)
    worklogs,     \* table worker_logs
    control_file, \* worker_control.json
    wc,           \* per process: WorkerControl.state as loaded at import
    channel,      \* Telegram channel: number of messages posted per deal
    bq,           \* broker: queued batch_price_check jobs (sets of product ids)
    fq,           \* broker: number of queued fetch_category_products jobs
    lastEval,     \* per product: the most recent committed evaluation
    lastCycle     \* the most recent scheduler cycle

sysvars == <<products, price_history, deals, cq, cw, nq, worklogs, control_file, wc,
             channel, bq, fq, lastEval, lastCycle>>

VARIABLES
    \* ---- batch selection as queries on a catalog with real timestamps ----
    catalog,      \* table products as the selection queries see it: id -> row,
                  \* last_checked_at in minutes of the UTC clock
    sel           \* the last selection: the operation, the products it returned
                  \* and the re-check interval of the query that returned each

selvars == <<catalog, sel>>

VARIABLES
    \* ---- proxy rotation (services/proxy_manager.py) ----
    proxies,       \* ProxyManager.proxies: the configured routes in order
    current_index, \* ProxyManager.current_index
    px             \* what is remembered of the calls of get_proxy

pxvars == <<proxies, current_index, px>>

VARIABLES
    \* ---- crawl tier (services/amazon_crawler.py) ----
    cr             \* the call of get_product_async in progress

crvars == <<cr>>

VARIABLES
    \* ---- priority calculator as a function ----
    pr             \* the last call of calculate_priority: arguments and result

prvars == <<pr>>

VARIABLES
    \* ---- the PA API client (services/amazon_client.py) ----
    fc             \* the AmazonPAAPIClient object and its call of get_products_batch

fcvars == <<fc>>

VARIABLES
    \* ---- the rate limiter of one process and its store ----
    store,         \* Redis db 2: reachable or not, the age of the timestamp key,
                   \* the remaining lifetime of the lock key
    lim            \* the RateLimiter object of the process and its position in
                   \* wait_if_needed

limvars == <<store, lim>>

VARIABLES
    \* ---- retries of check_product_price ----
    rt             \* per product: self.request.retries of its failing job

rtvars == <<rt>>

VARIABLES
    \* ---- PriceChecker.run, one product at a time ----
    run            \* the position of the run in its batches, its session, the
                   \* committed rows, its counts and the WorkLog row

runvars == <<run>>

VARIABLES
    \* ---- cancellation of dispatched jobs ----
    tk             \* the state of every task and the ids the workers hold as revoked

tkvars == <<tk>>

VARIABLES
    \* ---- the crawl semaphores of the worker processes ----
    sm             \* per process: the crawler of its running job and its semaphore

smvars == <<sm>>

VARIABLES
    \* ---- the proxy managers of the worker processes ----
    mgr            \* per process: _proxy_manager and the route its crawler holds

mgrvars == <<mgr>>

VARIABLES
    \* ---- get_items under its retry decorator ----
    gi             \* the attempt of the request and the tier calls it has made

givars == <<gi>>

VARIABLES
    \* ---- the jobs a refill cycle enqueues ----
    enq            \* the products the last cycle selected and its apply_async calls

enqvars == <<enq>>

VARIABLES
    \* ---- a call of _create_batches ----
    cb             \* its input list, the batch size and the batches it returned

cbvars == <<cb>>

VARIABLES
    \* ---- a sweep of update_product_priorities ----
    sw             \* its position, its offset and the check_priority column

swvars == <<sw>>

VARIABLES
    \* ---- the products of one tier over many refill cycles ----
    tq             \* last_checked_at of each product and the queued jobs

tqvars == <<tq>>

VARIABLES
    \* ---- the pacing of the crawl requests of one AmazonCrawler ----
    pace           \* the clock, last_request_time, the semaphore and the coroutines

pacevars == <<pace>>

VARIABLES
    \* ---- a batch of the backend's price update task ----
    bk             \* its position, its session, the database and the deal actions

bkvars == <<bk>>

auxvars == <<selvars, pxvars, crvars, prvars, fcvars, limvars>>

extvars == <<rtvars, runvars, tkvars, smvars, mgrvars, givars, enqvars, cbvars, swvars, tqvars, pacevars, bkvars>>

vars == <<rlvars, anvars, sysvars, auxvars, extvars>>

\* what the steps of one subsystem leave alone
corevars == <<rlvars, anvars, sysvars>>
nonRL == <<anvars, sysvars, auxvars, extvars>>
nonAn == <<rlvars, sysvars, auxvars, extvars>>
nonSys == <<rlvars, anvars, auxvars, extvars>>
nonSel == <<corevars, pxvars, crvars, prvars, fcvars, limvars, extvars>>
nonPx == <<corevars, selvars, crvars, prvars, fcvars, limvars, extvars>>
nonCr == <<corevars, selvars, prvars, fcvars, limvars, extvars>>
nonPr == <<corevars, selvars, pxvars, crvars, fcvars, limvars, extvars>>
nonFc == <<corevars, selvars, pxvars, crvars, prvars, limvars, extvars>>
nonLim == <<corevars, selvars, pxvars, crvars, prvars, fcvars, extvars>>
nonRt == <<rlvars, anvars, auxvars, runvars, tkvars, smvars, mgrvars, givars, enqvars, cbvars, swvars, tqvars, pacevars, bkvars>>
nonRun == <<rlvars, anvars, sysvars, auxvars, rtvars, tkvars, smvars, mgrvars, givars, enqvars, cbvars, swvars, tqvars, pacevars, bkvars>>
nonTk == <<rlvars, anvars, sysvars, auxvars, rtvars, runvars, smvars, mgrvars, givars, enqvars, cbvars, swvars, tqvars, pacevars, bkvars>>
nonSm == <<rlvars, anvars, sysvars, auxvars, rtvars, runvars, tkvars, mgrvars, givars, enqvars, cbvars, swvars, tqvars, pacevars, bkvars>>
nonMgr == <<rlvars, anvars, sysvars, auxvars, rtvars, runvars, tkvars, smvars, givars, enqvars, cbvars, swvars, tqvars, pacevars, bkvars>>
nonGi == <<rlvars, anvars, sysvars, auxvars, rtvars, runvars, tkvars, smvars, mgrvars, enqvars, cbvars, swvars, tqvars, pacevars, bkvars>>
nonEnq == <<rlvars, anvars, sysvars, auxvars, rtvars, runvars, tkvars, smvars, mgrvars, givars, cbvars, swvars, tqvars, pacevars, bkvars>>
nonCb == <<rlvars, anvars, sysvars, auxvars, rtvars, runvars, tkvars, smvars, mgrvars, givars, enqvars, swvars, tqvars, pacevars, bkvars>>
nonSw == <<rlvars, anvars, sysvars, auxvars, rtvars, runvars, tkvars, smvars, mgrvars, givars, enqvars, cbvars, tqvars, pacevars, bkvars>>
nonTq == <<rlvars, anvars, sysvars, auxvars, rtvars, runvars, tkvars, smvars, mgrvars, givars, enqvars, cbvars, swvars, pacevars, bkvars>>
nonPace == <<rlvars, anvars, sysvars, auxvars, rtvars, runvars, tkvars, smvars, mgrvars, givars, enqvars, cbvars, swvars, tqvars, bkvars>>
nonBk == <<rlvars, anvars, sysvars, auxvars, rtvars, runvars, tkvars, smvars, mgrvars, givars, enqvars, cbvars, swvars, tqvars, pacevars>>

(***************************************************************************)
(* Bounds of the model                                                      *)
(***************************************************************************)
NumWorkers == 2
NumProducts == 1
MaxChecks == 4
MaxHist == 4
MaxDeals == 2
MaxQueued == 2
MaxLogs == 2
MaxSends == 3
CategoryPages == 1

Workers == 1..NumWorkers

Min(a, b) == IF a <= b THEN a ELSE b
Max(a, b) == IF a >= b THEN a ELSE b

(***************************************************************************)
(* RATE LIMITER  --  RateLimiter.wait_if_needed, Redis path                 *)
(***************************************************************************)
min_interval == 1
LOCK_EX == 2
max_wait == 10
KEY_EX == 10

\* pc: where the caller is; waited: time.time() - start_time (saturating at
\* max_wait); sleep: what is left of time.sleep(sleep_time)
RLIdle == [pc |-> "idle", waited |-> 0, sleep |-> 0]

\* redis SET key:lock '1' EX 2 NX succeeds iff the key is absent or has expired
LockFree == lock = 0

\* wait_if_needed returns: the caller goes on to make its upstream request
Permit ==
    /\ sincePermit' = 0
    /\ minGap' = Min(minGap, sincePermit)

InitRLVars ==
    /\ lock = 0
    /\ key = KEY_EX
    /\ rl = [w \in Workers |-> RLIdle]
    /\ sincePermit = min_interval
    /\ minGap = min_interval

\* entry of wait_if_needed: start_time = time.time()
RLCall(w) ==
    /\ rl[w].pc = "idle"
    /\ rl' = [rl EXCEPT ![w] = [pc |-> "loop", waited |-> 0, sleep |-> 0]]
    /\ UNCHANGED <<lock, key, sincePermit, minGap>>
    /\ UNCHANGED nonRL

\* one successful iteration of the acquisition loop (an unsuccessful one sleeps
\* 10 ms and changes nothing)
RLTryLock(w) ==
    /\ rl[w].pc = "loop"
    /\ rl[w].waited < max_wait
    /\ LockFree
    /\ lock' = LOCK_EX
    /\ rl' = [rl EXCEPT ![w] = [pc |-> "locked", waited |-> 0, sleep |-> 0]]
    /\ UNCHANGED <<key, sincePermit, minGap>>
    /\ UNCHANGED nonRL

\* the loop ends after max_wait without the lock: "proceeding anyway"
RLGiveUp(w) ==
    /\ rl[w].pc = "loop"
    /\ rl[w].waited >= max_wait
    /\ rl' = [rl EXCEPT ![w] = RLIdle]
    /\ Permit
    /\ UNCHANGED <<lock, key>>
    /\ UNCHANGED nonRL

\* GET the shared timestamp (0 when the key is absent: elapsed is then the
\* whole epoch time) and decide whether to sleep
RLCheck(w) ==
    /\ rl[w].pc = "locked"
    /\ IF key < KEY_EX /\ key < min_interval
       THEN rl' = [rl EXCEPT ![w].pc = "sleep", ![w].sleep = min_interval - key]
       ELSE rl' = [rl EXCEPT ![w].pc = "update"]
    /\ UNCHANGED <<lock, key, sincePermit, minGap>>
    /\ UNCHANGED nonRL

\* time.sleep(sleep_time) returns no earlier than sleep_time later
RLWake(w) ==
    /\ rl[w].pc = "sleep"
    /\ rl[w].sleep = 0
    /\ rl' = [rl EXCEPT ![w].pc = "update"]
    /\ UNCHANGED <<lock, key, sincePermit, minGap>>
    /\ UNCHANGED nonRL

\* redis SET amazon_api_last_call str(time.time()) EX 10
RLUpdate(w) ==
    /\ rl[w].pc = "update"
    /\ key' = 0
    /\ rl' = [rl EXCEPT ![w].pc = "release"]
    /\ UNCHANGED <<lock, sincePermit, minGap>>
    /\ UNCHANGED nonRL

\* redis DELETE amazon_api_last_call:lock (whoever holds it), then return
RLRelease(w) ==
    /\ rl[w].pc = "release"
    /\ lock' = 0
    /\ rl' = [rl EXCEPT ![w] = RLIdle]
    /\ Permit
    /\ UNCHANGED key
    /\ UNCHANGED nonRL

\* a second passes in a store whose lock key carries no expiry
TickNoExpiry ==
    /\ key' = Min(key + 1, KEY_EX)
    /\ rl' = [w \in Workers |->
                [pc     |-> rl[w].pc,
                 waited |-> IF rl[w].pc = "loop"
                            THEN Min(rl[w].waited + 1, max_wait) ELSE 0,
                 sleep  |-> Max(rl[w].sleep - 1, 0)]]
    /\ sincePermit' = Min(sincePermit + 1, min_interval)
    /\ UNCHANGED <<lock, minGap>>
    /\ UNCHANGED nonRL

\* one second passes: the keys age, the waiting callers have waited longer
Tick ==
    /\ lock' = Max(lock - 1, 0)
    /\ key' = Min(key + 1, KEY_EX)
    /\ rl' = [w \in Workers |->
                [pc     |-> rl[w].pc,
                 waited |-> IF rl[w].pc = "loop"
                            THEN Min(rl[w].waited + 1, max_wait) ELSE 0,
                 sleep  |-> Max(rl[w].sleep - 1, 0)]]
    /\ sincePermit' = Min(sincePermit + 1, min_interval)
    /\ UNCHANGED minGap
    /\ UNCHANGED nonRL

NextRL ==
    \/ \E w \in Workers : RLCall(w)
    \/ \E w \in Workers : RLTryLock(w)
    \/ \E w \in Workers : RLGiveUp(w)
    \/ \E w \in Workers : RLCheck(w)
    \/ \E w \in Workers : RLWake(w)
    \/ \E w \in Workers : RLUpdate(w)
    \/ \E w \in Workers : RLRelease(w)
    \/ Tick

\* the positions of wait_if_needed between SET lock NX EX 2 and DELETE lock
Holding == {"locked", "sleep", "update", "release"}

\* the process that holds the lock (its key is live and no other caller is
\* between its SET and its DELETE) stops for good: it takes no further step
RLCrash(w) ==
    /\ rl[w].pc \in Holding
    /\ lock > 0
    /\ \A v \in Workers \ {w} : rl[v].pc \notin Holding
    /\ rl' = [rl EXCEPT ![w] = [pc |-> "crashed", waited |-> 0, sleep |-> 0]]
    /\ UNCHANGED <<lock, key, sincePermit, minGap>>
    /\ UNCHANGED nonRL

\* the steps of wait_if_needed that a running process takes by itself
RLStep(w) ==
    \/ RLTryLock(w)
    \/ RLGiveUp(w)
    \/ RLCheck(w)
    \/ RLWake(w)
    \/ RLUpdate(w)
    \/ RLRelease(w)

NextRLCrash ==
    \/ \E w \in Workers : RLCall(w)
    \/ \E w \in Workers : RLStep(w)
    \/ \E w \in Workers : RLCrash(w)
    \/ Tick

\* time passes, and a process that has not stopped goes on with its call
FairRL ==
    /\ WF_vars(Tick)
    /\ \A w \in Workers : WF_vars(RLStep(w))


(***************************************************************************)
(* DEAL DETECTOR  --  services/deal_detector.py                             *)
(*                                                                          *)
(* Money is in kurus (1/100 TRY), ratings in tenths of a star, percentages  *)
(* in hundredths of a percent (rounded down); the value 0 stands for None.  *)
(***************************************************************************)
deal_threshold == 15
history_days == 30
min_history_records == 2

TL(x) == x * 100

RECURSIVE SumPrice(_)
SumPrice(s) == IF s = << >> THEN 0 ELSE Head(s) + SumPrice(Tail(s))

RECURSIVE MinPrice(_)
MinPrice(s) == IF Len(s) = 1 THEN Head(s) ELSE Min(Head(s), MinPrice(Tail(s)))

\* a quotient rounded to the nearest integer (the Numeric(10, 2) column)
RoundDiv(a, b) == (2 * a + b) \div (2 * b)

\* _get_price_history: the rows of the product recorded in the last history_days
\* days (all but the first `old` ones) with is_available = True
GetPriceHistory(h, old) ==
    SelectSeq(SubSeq(h, old + 1, Len(h)), LAMBDA r : r.is_available)

\* prices = [float(h.price) for h in history if h.price]
PricesOf(history) ==
    LET priced == SelectSeq(history, LAMBDA r : r.price # 0)
    IN  [i \in 1..Len(priced) |-> priced[i].price]

\* _calculate_deal_score
CalculateDealScore(metrics, product) ==
    LET discount == metrics.discount_vs_avg
        s1 == IF discount >= 4000 THEN 50
              ELSE IF discount >= 3000 THEN 40
              ELSE IF discount >= 2000 THEN 30
              ELSE IF discount >= 1500 THEN 20
              ELSE IF discount >= 1000 THEN 10
              ELSE 0
        s2 == IF metrics.is_historical_low THEN 20 ELSE 0
        s3 == IF product.rating >= 45 THEN 20
              ELSE IF product.rating >= 40 THEN 15
              ELSE IF product.rating >= 35 THEN 10
              ELSE 0
        s4 == IF product.review_count >= 1000 THEN 10
              ELSE IF product.review_count >= 500 THEN 7
              ELSE IF product.review_count >= 100 THEN 5
              ELSE 0
        s5 == IF product.is_available THEN 10 ELSE 0
        s6 == IF product.is_prime THEN 10 ELSE 0
    IN  Min(s1 + s2 + s3 + s4 + s5 + s6, 100)

\* _calculate_metrics
CalculateMetrics(product, history) ==
    LET current_price == product.current_price
        prices == PricesOf(history)
        n == Len(prices)
        total == SumPrice(prices)
        base == [has_history       |-> Len(history) >= min_history_records,
                 history_count     |-> Len(history),
                 historical_avg    |-> IF n > 0 THEN RoundDiv(total, n) ELSE 0,
                 historical_min    |-> IF n > 0 THEN MinPrice(prices) ELSE 0,
                 \* (avg - current) / avg * 100, when avg > current
                 discount_vs_avg   |-> IF n > 0 /\ total > n * current_price
                                       THEN ((total - n * current_price) * 10000) \div total
                                       ELSE 0,
                 \* current_price <= historical_min * 1.01
                 is_historical_low |-> n > 0 /\ current_price * 100 <= MinPrice(prices) * 101,
                 is_early_deal     |-> Len(history) <= 3]
    IN  base @@ [deal_score |-> CalculateDealScore(base, product)]

\* _is_deal with one minimum score for every window size
IsDealFlatScore(metrics) ==
    IF ~metrics.has_history THEN FALSE
    ELSE IF metrics.discount_vs_avg < deal_threshold * 100 THEN FALSE
    ELSE metrics.deal_score >= 45

\* _is_deal
IsDeal(metrics) ==
    IF ~metrics.has_history THEN FALSE
    ELSE IF metrics.discount_vs_avg < deal_threshold * 100 THEN FALSE
    ELSE LET min_score == IF metrics.history_count <= 3 THEN 45 ELSE 50
         IN  metrics.deal_score >= min_score

NoDeal == [is_deal |-> FALSE, historical_avg |-> 0, discount_vs_avg |-> 0,
           is_historical_low |-> FALSE, deal_score |-> 0, history_count |-> 0]

\* analyze_product, given the rows its history query returns
AnalyzeProduct(product, history) ==
    IF product.current_price = 0 \/ ~product.is_available THEN NoDeal
    ELSE LET metrics == CalculateMetrics(product, history)
         IN  IF IsDeal(metrics)
             THEN [is_deal |-> TRUE,
                   historical_avg |-> metrics.historical_avg,
                   discount_vs_avg |-> metrics.discount_vs_avg,
                   is_historical_low |-> metrics.is_historical_low,
                   deal_score |-> metrics.deal_score,
                   history_count |-> metrics.history_count]
             ELSE NoDeal


(***************************************************************************)
(* analyze_product applied to arbitrary products and histories             *)
(***************************************************************************)
MaxRows == 4

AnPrices == {0, TL(60), TL(70), TL(100)}
AnRatings == {0, 40, 45}
AnReviews == {0, 100}
AnRowPrices == {TL(60), TL(100)}

AnProducts ==
    [current_price : AnPrices, is_available : BOOLEAN, rating : AnRatings,
     review_count : AnReviews, is_prime : BOOLEAN]

AnRows == [price : AnRowPrices, is_available : BOOLEAN]

AnHistories == UNION {[1..n -> AnRows] : n \in 0..MaxRows}

\* the arguments of a call: a product and its rows, the first `old` of them
\* recorded more than history_days days ago
AnInputs ==
    UNION {[called : {FALSE}, product : AnProducts, rows : {rows},
            old : 0..Len(rows), result : {NoDeal}] : rows \in AnHistories}

InitAnVars == an = [called |-> FALSE]

\* analyze_product(product, db)
AnalyzeCall ==
    /\ ~an.called
    /\ an' = [an EXCEPT !.called = TRUE,
                        !.result = AnalyzeProduct(an.product,
                                                  GetPriceHistory(an.rows, an.old))]
    /\ UNCHANGED nonAn

NextAnalyze == AnalyzeCall

(***************************************************************************)
(* STORAGE  --  worker/database.py                                          *)
(*                                                                          *)
(* Timestamps are kept as what the queries ask of them: last_checked_at is  *)
(* "never" (NULL), "fresh" (newer than the re-check interval) or "stale"    *)
(* (older), and a price_history row carries whether it was recorded today.  *)
(* The runs of the pipeline are shorter than the 30-day window, so every    *)
(* row of a product is inside it.                                           *)
(***************************************************************************)
Products == 1..NumProducts
DealIds == 1..MaxDeals

\* a product that has been tracked for two days at a price of 100: it was
\* checked twice, each check recorded the observation of its day, and it is
\* due for its next check
TrackedProduct ==
    [current_price |-> TL(100), is_available |-> TRUE, is_active |-> TRUE,
     rating |-> 0, review_count |-> 0, is_prime |-> FALSE,
     check_priority |-> 50, last_checked |-> "stale", check_count |-> 2]

\* a daily snapshot of an earlier day
FirstRow == [price |-> TL(100), is_available |-> TRUE, today |-> FALSE]

NoEval ==
    [path |-> "none", status |-> "none", is_deal |-> FALSE, op |-> "none", deal |-> 0,
     active_before |-> 0, deal_price_before |-> 0, n_before |-> 0, price |-> 0,
     prior |-> << >>, info |-> NoDeal]

NoCycle == [name |-> "none", scheduler_enabled |-> TRUE, file_enabled |-> TRUE,
            enqueued |-> 0, ran |-> FALSE, skipped_logs |-> 0]

CWIdle == [pc |-> "idle"]

\* the default state of WorkerControl._load_state
DefaultControl ==
    [scheduler_enabled |-> TRUE,
     jobs |-> [j \in {"fetch_products", "check_prices", "send_telegram"} |-> TRUE]]

Processes == {"celery", "manager"}

InitSysVars ==
    /\ products = [p \in Products |-> TrackedProduct]
    /\ price_history = [p \in Products |-> <<FirstRow, FirstRow>>]
    /\ deals = << >>
    /\ cq = [p \in Products |-> 0]
    /\ cw = [w \in Workers |-> CWIdle]
    /\ nq = << >>
    /\ worklogs = << >>
    /\ control_file = DefaultControl
    /\ wc = [x \in Processes |-> DefaultControl]
    /\ channel = [d \in DealIds |-> 0]
    /\ bq = << >>
    /\ fq = 0
    /\ lastEval = [p \in Products |-> NoEval]
    /\ lastCycle = NoCycle

DealsOf(ds, p) == {d \in 1..Len(ds) : ds[d].product_id = p}
ActiveDealsOf(ds, p) == {d \in DealsOf(ds, p) : ds[d].is_active}

\* db.query(Deal).filter(product_id == p, is_active == True).first(); 0 = None
ActiveDeal(ds, p) ==
    IF ActiveDealsOf(ds, p) = {} THEN 0
    ELSE CHOOSE d \in ActiveDealsOf(ds, p) : \A e \in ActiveDealsOf(ds, p) : d <= e

\* create_or_update_deal without the query for the active deal
CreateOrUpdateDealAlways(ds, p, product, deal_info) ==
    LET original_price == deal_info.historical_avg
    IN  [created |-> TRUE,
         id |-> 0,
         original_price |-> original_price,
         deal_price |-> product.current_price,
         discount_amount |-> original_price - product.current_price,
         discount_percentage |-> deal_info.discount_vs_avg]

\* create_or_update_deal: what it does to the session, given the deals its
\* query sees
CreateOrUpdateDeal(ds, p, product, deal_info) ==
    LET active_deal == ActiveDeal(ds, p)
        original_price == deal_info.historical_avg
    IN  [created |-> active_deal = 0,
         id |-> active_deal,
         original_price |-> original_price,
         deal_price |-> product.current_price,
         discount_amount |-> original_price - product.current_price,
         discount_percentage |-> deal_info.discount_vs_avg]

NoOp == [created |-> FALSE, id |-> 0, original_price |-> 0, deal_price |-> 0,
         discount_amount |-> 0, discount_percentage |-> 0]

\* the flush of the session: INSERT of the new Deal or UPDATE of the one found
FlushDeal(ds, p, is_deal, op) ==
    IF ~is_deal THEN ds
    ELSE IF op.created
    THEN Append(ds, [product_id |-> p,
                     original_price |-> op.original_price,
                     deal_price |-> op.deal_price,
                     discount_amount |-> op.discount_amount,
                     discount_percentage |-> op.discount_percentage,
                     is_active |-> TRUE, is_published |-> FALSE,
                     telegram_sent |-> FALSE])
    ELSE [ds EXCEPT ![op.id] = [@ EXCEPT !.original_price = op.original_price,
                                         !.deal_price = op.deal_price,
                                         !.discount_amount = op.discount_amount,
                                         !.discount_percentage = op.discount_percentage]]

\* the flush of a loaded Product: UPDATE of the columns whose value was changed
\* (last_checked_at is a new timestamp whenever it is assigned)
FlushProduct(row, loaded, new) ==
    [c \in DOMAIN row |->
        IF c = "last_checked" \/ new[c] # loaded[c] THEN new[c] ELSE row[c]]

Abs(x) == IF x < 0 THEN -x ELSE x

WindowPrices(h) == PricesOf(GetPriceHistory(h, 0))

(***************************************************************************)
(* check_product_price  --  worker/celery_tasks.py                          *)
(***************************************************************************)
CrawlPrices == {TL(60), TL(80), TL(100)}
CrawlRatings == {0}

\* what AmazonCrawler.get_product_async returns: None, or a snapshot whose
\* is_available is "a price was found"
CrawlItems ==
    {[data |-> FALSE, current_price |-> 0, rating |-> 0]}
        \cup [data : {TRUE}, current_price : CrawlPrices \cup {0}, rating : CrawlRatings]

\* deal.id of a Deal that was added to the session and not flushed
\* (sessionmaker(autoflush=False)): None
PendingDealId == 0

\* a snapshot without a price taken for "no data": the row is only counted
NoPriceAsNoData(base, counted) == base

\* `if not new_price`: product.is_available = False, status "unavailable"
NoPriceJob(base, counted) ==
    [base EXCEPT !.new = [counted EXCEPT !.is_available = FALSE],
                 !.status = "unavailable"]

\* a row for every evaluation, whatever the last row
RecordAlways(price_changed, history) == TRUE

\* should_record_history: the price changed, or the product has no row, or
\* its last row (order_by(recorded_at.desc()).first()) is of an earlier day
ShouldRecordHistory(price_changed, history) ==
    \/ price_changed
    \/ history = << >>
    \/ ~history[Len(history)].today

\* a worker runs check_product_price for a queued job, from the query of the
\* product to the last statement before db.commit(); the rows are read as of
\* the return of the crawl
CPEvaluate(w, p, item) ==
    /\ cw[w].pc = "idle"
    /\ cq[p] > 0
    /\ products[p].check_count < MaxChecks
    /\ cq' = [cq EXCEPT ![p] = @ - 1]
    /\ LET loaded == products[p]
           old_price == loaded.current_price
           new_price == item.current_price
           counted == [loaded EXCEPT !.last_checked = "fresh",
                                     !.check_count = @ + 1]
           product == [counted EXCEPT !.current_price = new_price,
                                      !.rating = item.rating,
                                      !.is_available = TRUE]
           price_changed == old_price # 0 /\ Abs(new_price - old_price) > 1
           should_record_history == ShouldRecordHistory(price_changed, price_history[p])
           \* the pending price_history row is not flushed: the query of
           \* analyze_product sees the committed rows only
           deal_info == AnalyzeProduct(product, GetPriceHistory(price_history[p], 0))
           base == [pc |-> "evaluated", product |-> p, loaded |-> loaded,
                    new |-> counted, row |-> 0, is_deal |-> FALSE, op |-> NoOp,
                    status |-> "no_data", active_before |-> ActiveDeal(deals, p),
                    deal_price_before |-> IF ActiveDeal(deals, p) = 0 THEN 0
                                          ELSE deals[ActiveDeal(deals, p)].deal_price,
                    price |-> new_price,
                    data |-> item.data,
                    prior |-> WindowPrices(price_history[p]),
                    info |-> NoDeal]
       IN  cw' = [cw EXCEPT ![w] =
                 IF ~item.data THEN base
                 ELSE IF new_price = 0
                 THEN NoPriceJob(base, counted)
                 ELSE [base EXCEPT !.new = product,
                                   !.row = IF should_record_history THEN new_price ELSE 0,
                                   !.is_deal = deal_info.is_deal,
                                   !.op = IF deal_info.is_deal
                                          THEN CreateOrUpdateDeal(deals, p, product, deal_info)
                                          ELSE NoOp,
                                   !.status = "success",
                                   !.info = deal_info]]
    /\ UNCHANGED <<products, price_history, deals, nq, worklogs, control_file, wc, channel, bq, fq,
                   lastEval, lastCycle>>
    /\ UNCHANGED nonSys

\* db.commit(), and the hand-off of a new deal to send_deal_notification
CPCommit(w) ==
    /\ cw[w].pc = "evaluated"
    /\ LET p == cw[w].product
           j == cw[w]
           created == j.is_deal /\ j.op.created
           deal_created == created
           deal_id_for_notification == IF created THEN PendingDealId ELSE 0
       IN  /\ j.row # 0 => Len(price_history[p]) < MaxHist
           /\ created => Len(deals) < MaxDeals
           /\ products' = [products EXCEPT ![p] = FlushProduct(@, j.loaded, j.new)]
           /\ price_history' = IF j.row = 0 THEN price_history
                         ELSE [price_history EXCEPT ![p] =
                                 Append(@, [price |-> j.row,
                                            is_available |-> j.new.is_available,
                                            today |-> TRUE])]
           /\ deals' = FlushDeal(deals, p, j.is_deal, j.op)
           /\ nq' = IF deal_created /\ deal_id_for_notification # 0
                    THEN Append(nq, deal_id_for_notification) ELSE nq
           /\ lastEval' = [lastEval EXCEPT ![p] =
                             [path |-> "check_product_price", status |-> j.status,
                              is_deal |-> j.is_deal,
                              op |-> IF ~j.is_deal THEN "none"
                                     ELSE IF j.op.created THEN "create" ELSE "update",
                              deal |-> IF ~j.is_deal THEN 0
                                       ELSE IF j.op.created THEN Len(deals) + 1 ELSE j.op.id,
                              active_before |-> j.active_before,
                              deal_price_before |-> j.deal_price_before,
                              n_before |-> Cardinality(DealsOf(deals, p)),
                              price |-> j.price, prior |-> j.prior, info |-> j.info]]
    /\ cw' = [cw EXCEPT ![w] = CWIdle]
    /\ UNCHANGED <<cq, worklogs, control_file, wc, channel, bq, fq, lastCycle>>
    /\ UNCHANGED nonSys

\* @app.task(bind=True, max_retries=3, default_retry_delay=60)
task_max_retries == 3

InitRtVars == rt = [p \in Products |-> 0]

\* an exception inside the try block of check_product_price (the database is
\* down, the commit fails): nothing of the job is committed, and
\* `raise self.retry(exc=e)` queues the job again, or re-raises the exception
\* once the retries are used up, which ends the job as failed
CPRaise(w) ==
    /\ cw[w].pc = "evaluated"
    /\ LET p == cw[w].product
       IN  IF rt[p] < task_max_retries
           THEN /\ cq[p] < MaxQueued
                /\ cq' = [cq EXCEPT ![p] = @ + 1]
                /\ rt' = [rt EXCEPT ![p] = @ + 1]
           ELSE /\ cq' = cq
                /\ rt' = [rt EXCEPT ![p] = 0]
    /\ cw' = [cw EXCEPT ![w] = CWIdle]
    /\ UNCHANGED <<products, price_history, deals, nq, worklogs, control_file, wc, channel,
                   bq, fq, lastEval, lastCycle>>
    /\ UNCHANGED nonRt

(***************************************************************************)
(* WorkerControl  --  worker/worker_control.py                              *)
(***************************************************************************)
IsSchedulerEnabled(state) == state.scheduler_enabled

IsJobEnabled(state, job_type) ==
    IF job_type \in DOMAIN state.jobs THEN state.jobs[job_type] ELSE TRUE

ShouldRunJob(state, job_type) == IsSchedulerEnabled(state) /\ IsJobEnabled(state, job_type)

Cycle(name, state, enqueued, ran, skipped_logs) ==
    [name |-> name, scheduler_enabled |-> state.scheduler_enabled,
     file_enabled |-> control_file.scheduler_enabled,
     enqueued |-> enqueued, ran |-> ran, skipped_logs |-> skipped_logs]

(***************************************************************************)
(* continuous_queue_refill  --  worker/celery_tasks.py                      *)
(***************************************************************************)
\* the six tier queries together: every active product that was never checked
\* or whose last check is older than the interval of its tier
DueProducts ==
    {p \in Products : products[p].is_active /\ products[p].last_checked # "fresh"}

ContinuousQueueRefill ==
    /\ IF ~ShouldRunJob(wc["celery"], "check_prices")
       THEN /\ lastCycle' = Cycle("continuous_queue_refill", wc["celery"], 0, FALSE, 0)
            /\ UNCHANGED cq
       ELSE /\ \A p \in DueProducts : cq[p] < MaxQueued
            /\ cq' = [p \in Products |-> IF p \in DueProducts THEN cq[p] + 1 ELSE cq[p]]
            /\ lastCycle' = Cycle("continuous_queue_refill", wc["celery"],
                                  Cardinality(DueProducts), TRUE, 0)
    /\ UNCHANGED <<products, price_history, deals, cw, nq, worklogs, control_file, wc, channel, bq, fq, lastEval>>
    /\ UNCHANGED nonSys

(***************************************************************************)
(* PriceChecker  --  worker/jobs/price_checker_v2.py                        *)
(***************************************************************************)
\* an item of get_products_batch: absent, or a snapshot whose availability is
\* reported apart from its price
BatchItems ==
    {[data |-> FALSE, current_price |-> 0, is_available |-> FALSE, rating |-> 0,
      is_prime |-> FALSE]}
        \cup [data : {TRUE}, current_price : {0, TL(60), TL(80), TL(100)},
              is_available : BOOLEAN, rating : {0}, is_prime : {FALSE}]

\* _get_products_needing_check
ProductsNeedingCheck ==
    {p \in Products : products[p].is_active /\ products[p].last_checked # "fresh"}

\* the second half of _update_product_price: the deal of the analysis is
\* created or updated on the session
ApplyDealInfo(st, p, item, product, hist, deal_info, op) ==
    [products |-> [st.products EXCEPT ![p] = product],
     history |-> [st.history EXCEPT ![p] = hist],
     deals |-> FlushDeal(st.deals, p, deal_info.is_deal, op),
     evals |-> [st.evals EXCEPT ![p] =
                 [path |-> "PriceChecker",
                  status |-> IF item.current_price = 0 \/ ~item.is_available
                             THEN "unavailable" ELSE "success",
                  is_deal |-> deal_info.is_deal,
                  op |-> IF ~deal_info.is_deal THEN "none"
                         ELSE IF op.created THEN "create" ELSE "update",
                  deal |-> IF ~deal_info.is_deal THEN 0
                           ELSE IF op.created THEN Len(st.deals) + 1 ELSE op.id,
                  active_before |-> ActiveDeal(st.deals, p),
                  deal_price_before |-> IF ActiveDeal(st.deals, p) = 0 THEN 0
                                        ELSE st.deals[ActiveDeal(st.deals, p)].deal_price,
                  n_before |-> Cardinality(DealsOf(st.deals, p)),
                  price |-> item.current_price,
                  prior |-> WindowPrices(st.history[p]),
                  info |-> deal_info]]]

\* the deal detection of _update_product_price on the updated product and
\* the rows the session holds
DetectDeal(st, p, item, product, hist, deal_info) ==
    ApplyDealInfo(st, p, item, product, hist, deal_info,
                  IF deal_info.is_deal
                  THEN CreateOrUpdateDeal(st.deals, p, product, deal_info) ELSE NoOp)

\* _update_product_price on the session st; the new price_history row is
\* flushed before analyze_product queries the history
UpdateProductPrice(st, p, item) ==
    LET old_price == st.products[p].current_price
        new_price == item.current_price
        product == [st.products[p] EXCEPT !.current_price = new_price,
                                          !.rating = item.rating,
                                          !.is_available = item.is_available,
                                          !.is_prime = item.is_prime,
                                          !.last_checked = "fresh"]
        price_changed == new_price # 0 /\ (old_price = 0 \/ Abs(new_price - old_price) >= 1)
        hist == IF price_changed
                THEN Append(st.history[p], [price |-> new_price,
                                            is_available |-> item.is_available,
                                            today |-> TRUE])
                ELSE st.history[p]
    IN  DetectDeal(st, p, item, product, hist,
                   AnalyzeProduct(product, GetPriceHistory(hist, 0)))

\* the loop of _process_batch over the products of the batch, in query order
RECURSIVE ProcessBatch(_, _, _)
ProcessBatch(st, todo, items) ==
    IF todo = {} THEN st
    ELSE LET p == CHOOSE q \in todo : \A r \in todo : q <= r
             next == IF items[p].data
                     THEN UpdateProductPrice(st, p, items[p])
                     ELSE [st EXCEPT !.products[p].last_checked = "fresh",
                                     !.evals[p] = [NoEval EXCEPT !.path = "PriceChecker",
                                                                 !.status = "no_data"]]
         IN  ProcessBatch(next, todo \ {p}, items)

\* _expire_old_deals
ExpireOldDeals(st) ==
    [d \in 1..Len(st.deals) |->
        LET deal == st.deals[d]
            product == st.products[deal.product_id]
        IN  IF ~deal.is_active THEN deal
            ELSE IF ~product.is_available THEN [deal EXCEPT !.is_active = FALSE]
            ELSE IF ~AnalyzeProduct(product,
                                    GetPriceHistory(st.history[deal.product_id], 0)).is_deal
            THEN [deal EXCEPT !.is_active = FALSE]
            ELSE deal]

\* the end of PriceChecker.run: _expire_old_deals on the session
WithExpiredDeals(st) == [st EXCEPT !.deals = ExpireOldDeals(st)]

\* PriceChecker.run on the committed state; batch_error is an exception of
\* the batch request, which rolls the batch back
PriceCheckerRun(api_enabled, batch_error, items) ==
    LET st0 == [products |-> products, history |-> price_history, deals |-> deals,
                evals |-> lastEval]
        todo == ProductsNeedingCheck
    IN  IF ~api_enabled THEN [status |-> "skipped", st |-> st0]
        ELSE IF todo = {} THEN [status |-> "completed", st |-> st0]
        ELSE [status |-> "completed",
              st |-> WithExpiredDeals(IF batch_error THEN st0
                                      ELSE ProcessBatch(st0, todo, items))]

\* WorkerManager.check_prices: run_job around PriceChecker.run.  The job runs
\* on its own session from the query to the last commit.
ManagerCheckPrices ==
    /\ IF ~ShouldRunJob(wc["manager"], "price_check")
       THEN /\ lastCycle' = Cycle("run_job", wc["manager"], 0, FALSE, 0)
            /\ UNCHANGED <<products, price_history, deals, worklogs, lastEval>>
       ELSE \E api_enabled \in BOOLEAN, batch_error \in BOOLEAN,
               items \in [Products -> BatchItems] :
              \E result \in {PriceCheckerRun(api_enabled, batch_error, items)} :
                  /\ Len(worklogs) < MaxLogs
                  /\ \A p \in Products : Len(result.st.history[p]) <= MaxHist
                  /\ Len(result.st.deals) <= MaxDeals
                  /\ products' = result.st.products
                  /\ price_history' = result.st.history
                  /\ deals' = result.st.deals
                  /\ lastEval' = result.st.evals
                  /\ worklogs' = Append(worklogs, [job_type |-> "price_check",
                                                   status |-> result.status])
                  /\ lastCycle' = Cycle("run_job", wc["manager"], 0, api_enabled, 0)
    /\ UNCHANGED <<cq, cw, nq, control_file, wc, channel, bq, fq>>
    /\ UNCHANGED nonSys

(***************************************************************************)
(* The passing of time                                                      *)
(***************************************************************************)
\* midnight: no row is of today any more
NewDay ==
    /\ \E p \in Products : \E i \in 1..Len(price_history[p]) : price_history[p][i].today
    /\ price_history' = [p \in Products |->
                     [i \in 1..Len(price_history[p]) |-> [price_history[p][i] EXCEPT !.today = FALSE]]]
    /\ UNCHANGED <<products, deals, cq, cw, nq, worklogs, control_file, wc, channel, bq, fq, lastEval,
                   lastCycle>>
    /\ UNCHANGED nonSys

\* the re-check interval of a product passes
IntervalPasses(p) ==
    /\ products[p].last_checked = "fresh"
    /\ products' = [products EXCEPT ![p].last_checked = "stale"]
    /\ UNCHANGED <<price_history, deals, cq, cw, nq, worklogs, control_file, wc, channel, bq, fq, lastEval,
                   lastCycle>>
    /\ UNCHANGED nonSys

NextDeal ==
    \/ \E w \in Workers, p \in Products, item \in CrawlItems : CPEvaluate(w, p, item)
    \/ \E w \in Workers : CPCommit(w)
    \/ ContinuousQueueRefill
    \/ NewDay
    \/ \E p \in Products : IntervalPasses(p)

\* the answers of the crawler in the runs that follow a failing job: nothing,
\* or the price the product already has
RetryItems ==
    {item \in CrawlItems : ~item.data \/ item.current_price = TL(100)}

NextRetry ==
    \/ \E w \in Workers, p \in Products, item \in RetryItems : CPEvaluate(w, p, item)
    \/ \E w \in Workers : CPCommit(w)
    \/ \E w \in Workers : CPRaise(w)
    \/ ContinuousQueueRefill
    \/ \E p \in Products : IntervalPasses(p)

\* a worker starts a job while no other job is between its query and its
\* commit
CPEvaluateAlone(w, p, item) ==
    /\ \A v \in Workers : cw[v].pc = "idle"
    /\ CPEvaluate(w, p, item)

\* check_product_price jobs of the products run one after another
NextSeq ==
    \/ \E w \in Workers, p \in Products, item \in CrawlItems : CPEvaluateAlone(w, p, item)
    \/ \E w \in Workers : CPCommit(w)
    \/ ContinuousQueueRefill
    \/ NewDay
    \/ \E p \in Products : IntervalPasses(p)

NextBatch ==
    \/ ManagerCheckPrices
    \/ NewDay
    \/ \E p \in Products : IntervalPasses(p)

(***************************************************************************)
(* NOTIFICATIONS  --  send_deal_notification, schedule_notifications,       *)
(* TelegramSender                                                           *)
(***************************************************************************)
\* what the Bot API answers to a send: a Message, which always carries a
\* message id, or an exception
Responses == {"ok", "error"}

MessageId(resp) == IF resp = "ok" THEN 1 ELSE 0

\* jobs/telegram_sender.py _send_deal: bool(message_id), False on an exception
SendDealV1(resp) == MessageId(resp) # 0

\* _send_deal of v2 with the deal marked before the send is awaited
SendDealV2MarkFirst(resp) == resp \in Responses

\* jobs/telegram_sender_v2.py _send_deal: marks the deal and returns True once
\* the send has returned, returns False on an exception
SendDealV2(resp) == resp = "ok"

\* the deals both the sweep and the sender jobs select
UnsentDeals ==
    {d \in 1..Len(deals) :
        deals[d].is_published /\ deals[d].is_active /\ ~deals[d].telegram_sent}

\* order_by(discount_percentage.desc())
RECURSIVE ByDiscount(_)
ByDiscount(S) ==
    IF S = {} THEN << >>
    ELSE LET d == CHOOSE x \in S :
                    \A y \in S :
                        \/ deals[x].discount_percentage > deals[y].discount_percentage
                        \/ /\ deals[x].discount_percentage = deals[y].discount_percentage
                           /\ x <= y
         IN  <<d>> \o ByDiscount(S \ {d})

\* POST /deals/{id}/publish of the admin API
PublishDeal(d) ==
    /\ d \in 1..Len(deals)
    /\ ~deals[d].is_published
    /\ deals' = [deals EXCEPT ![d].is_published = TRUE]
    /\ UNCHANGED <<products, price_history, cq, cw, nq, worklogs, control_file, wc,
                   channel, bq, fq, lastEval, lastCycle>>
    /\ UNCHANGED nonSys

ScheduleNotifications ==
    /\ IF ~ShouldRunJob(wc["celery"], "send_telegram")
       THEN /\ lastCycle' = Cycle("schedule_notifications", wc["celery"], 0, FALSE, 0)
            /\ UNCHANGED nq
       ELSE /\ Len(nq) + Cardinality(UnsentDeals) <= MaxQueued
            /\ nq' = nq \o ByDiscount(UnsentDeals)
            /\ lastCycle' = Cycle("schedule_notifications", wc["celery"],
                                  Cardinality(UnsentDeals), TRUE, 0)
    /\ UNCHANGED <<products, price_history, deals, cq, cw, worklogs, control_file, wc,
                   channel, bq, fq, lastEval>>
    /\ UNCHANGED nonSys

\* send_deal_notification up to the call of the Bot API: the deal is read,
\* and the job ends here if it is marked as sent
SDNStart(w) ==
    /\ cw[w].pc = "idle"
    /\ nq # << >>
    /\ nq' = Tail(nq)
    /\ cw' = IF deals[Head(nq)].telegram_sent THEN cw
             ELSE [cw EXCEPT ![w] = [pc |-> "sending", deal |-> Head(nq)]]
    /\ UNCHANGED <<products, price_history, deals, cq, worklogs, control_file, wc,
                   channel, bq, fq, lastEval, lastCycle>>
    /\ UNCHANGED nonSys

\* the Bot API answers, and the task marks the deal and commits on success
SDNFinish(w, resp) ==
    /\ cw[w].pc = "sending"
    /\ LET d == cw[w].deal
           success == SendDealV1(resp)
       IN  /\ channel[d] < MaxSends
           /\ channel' = IF resp = "ok" THEN [channel EXCEPT ![d] = @ + 1] ELSE channel
           /\ deals' = IF success THEN [deals EXCEPT ![d].telegram_sent = TRUE] ELSE deals
    /\ cw' = [cw EXCEPT ![w] = CWIdle]
    /\ UNCHANGED <<products, price_history, cq, nq, worklogs, control_file, wc,
                   bq, fq, lastEval, lastCycle>>
    /\ UNCHANGED nonSys

\* TelegramSender.run of either version on the deals it selects: resp[d] is
\* the answer to the send of deal d
TelegramSenderRun(version, resp) ==
    [ch |-> [d \in DOMAIN channel |->
                IF d \in UnsentDeals /\ resp[d] = "ok" THEN channel[d] + 1 ELSE channel[d]],
     deals |-> [d \in 1..Len(deals) |->
                IF d \in UnsentDeals
                   /\ (IF version = "v1" THEN MessageId(resp[d]) # 0 ELSE SendDealV2(resp[d]))
                THEN [deals[d] EXCEPT !.telegram_sent = TRUE]
                ELSE deals[d]]]

\* WorkerManager.send_telegram_notifications of main_v2.py
ManagerSendTelegram ==
    /\ IF ~ShouldRunJob(wc["manager"], "telegram_send")
       THEN /\ lastCycle' = Cycle("run_job", wc["manager"], 0, FALSE, 0)
            /\ UNCHANGED <<deals, channel, worklogs>>
       ELSE \E resp \in [1..Len(deals) -> Responses] :
              LET result == TelegramSenderRun("v2", resp)
              IN  /\ Len(worklogs) < MaxLogs
                  /\ \A d \in UnsentDeals : channel[d] < MaxSends
                  /\ channel' = result.ch
                  /\ deals' = result.deals
                  /\ worklogs' = Append(worklogs, [job_type |-> "telegram_send",
                                                   status |-> "completed"])
                  /\ lastCycle' = Cycle("run_job", wc["manager"], 0, TRUE, 0)
    /\ UNCHANGED <<products, price_history, cq, cw, nq, control_file, wc, bq, fq, lastEval>>
    /\ UNCHANGED nonSys

\* WorkerManager.send_telegram_notifications of main.py, whose run_job does
\* not consult the control state
LegacySendTelegram ==
    /\ \E resp \in [1..Len(deals) -> Responses] :
          LET result == TelegramSenderRun("v1", resp)
          IN  /\ Len(worklogs) < MaxLogs
              /\ \A d \in UnsentDeals : channel[d] < MaxSends
              /\ channel' = result.ch
              /\ deals' = result.deals
              /\ worklogs' = Append(worklogs, [job_type |-> "telegram_send",
                                               status |-> "completed"])
    /\ UNCHANGED <<products, price_history, cq, cw, nq, control_file, wc, bq, fq, lastEval,
                   lastCycle>>
    /\ UNCHANGED nonSys

NextNotify ==
    \/ \E d \in DealIds : PublishDeal(d)
    \/ ScheduleNotifications
    \/ \E w \in Workers : SDNStart(w)
    \/ \E w \in Workers, resp \in Responses : SDNFinish(w, resp)
    \/ ManagerSendTelegram
    \/ LegacySendTelegram

(***************************************************************************)
(* OPERATOR CONTROL  --  backend/app/api/workers.py, worker_control.py      *)
(***************************************************************************)
\* POST /control/pause and /control/resume: the API rewrites the file
PauseScheduler ==
    /\ control_file.scheduler_enabled
    /\ control_file' = [control_file EXCEPT !.scheduler_enabled = FALSE]
    /\ UNCHANGED <<products, price_history, deals, cq, cw, nq, worklogs, wc,
                   channel, bq, fq, lastEval, lastCycle>>
    /\ UNCHANGED nonSys

ResumeScheduler ==
    /\ ~control_file.scheduler_enabled
    /\ control_file' = [control_file EXCEPT !.scheduler_enabled = TRUE]
    /\ UNCHANGED <<products, price_history, deals, cq, cw, nq, worklogs, wc,
                   channel, bq, fq, lastEval, lastCycle>>
    /\ UNCHANGED nonSys

\* a process is restarted: `worker_control = WorkerControl()` runs again and
\* _load_state reads the file
RestartProcess(x) ==
    /\ wc[x] # control_file
    /\ x = "celery" => \A w \in Workers : cw[w].pc = "idle"
    /\ wc' = [wc EXCEPT ![x] = control_file]
    /\ UNCHANGED <<products, price_history, deals, cq, cw, nq, worklogs, control_file,
                   channel, bq, fq, lastEval, lastCycle>>
    /\ UNCHANGED nonSys

\* valid_job_types of the API
ValidJobTypes == {"fetch_products", "check_prices", "send_telegram"}

\* POST /control/job/{job_type}/disable and /enable: the API rewrites the file
DisableJob(job_type) ==
    /\ job_type \in ValidJobTypes
    /\ control_file.jobs[job_type]
    /\ control_file' = [control_file EXCEPT !.jobs[job_type] = FALSE]
    /\ UNCHANGED <<products, price_history, deals, cq, cw, nq, worklogs, wc,
                   channel, bq, fq, lastEval, lastCycle>>
    /\ UNCHANGED nonSys

EnableJob(job_type) ==
    /\ job_type \in ValidJobTypes
    /\ ~control_file.jobs[job_type]
    /\ control_file' = [control_file EXCEPT !.jobs[job_type] = TRUE]
    /\ UNCHANGED <<products, price_history, deals, cq, cw, nq, worklogs, wc,
                   channel, bq, fq, lastEval, lastCycle>>
    /\ UNCHANGED nonSys

Tiers == {"high", "medium", "low"}

\* SmartBatchProcessor.get_<tier>_priority_batches: last_checked_at < cutoff
\* does not select a product that was never checked
TierProducts(tier) ==
    {p \in Products :
        /\ products[p].is_available
        /\ products[p].last_checked = "stale"
        /\ CASE tier = "high" ->
                    \/ ActiveDealsOf(deals, p) # {}
                    \/ products[p].check_priority >= 80
             [] tier = "medium" ->
                    products[p].check_priority >= 40 /\ products[p].check_priority < 80
             [] OTHER -> products[p].check_priority < 40}

\* schedule_high/medium/low_priority_checks; the products of a cycle fit in
\* one batch
ScheduleTierChecks(tier) ==
    /\ Len(bq) < MaxQueued
    /\ bq' = IF TierProducts(tier) = {} THEN bq ELSE Append(bq, TierProducts(tier))
    /\ lastCycle' = Cycle("schedule_" \o tier \o "_priority_checks", wc["celery"],
                          Cardinality(TierProducts(tier)), TRUE, 0)
    /\ UNCHANGED <<products, price_history, deals, cq, cw, nq, worklogs, control_file, wc,
                   channel, fq, lastEval>>
    /\ UNCHANGED nonSys

\* batch_price_check: one check_product_price job per product of the batch
BatchPriceCheck ==
    /\ bq # << >>
    /\ \A p \in Head(bq) : cq[p] < MaxQueued
    /\ bq' = Tail(bq)
    /\ cq' = [p \in Products |-> IF p \in Head(bq) THEN cq[p] + 1 ELSE cq[p]]
    /\ UNCHANGED <<products, price_history, deals, cw, nq, worklogs, control_file, wc,
                   channel, fq, lastEval, lastCycle>>
    /\ UNCHANGED nonSys

\* schedule_product_fetch: one fetch_category_products job per page of every
\* browse node of every active category
ScheduleProductFetch ==
    /\ IF ~ShouldRunJob(wc["celery"], "fetch_products")
       THEN /\ lastCycle' = Cycle("schedule_product_fetch", wc["celery"], 0, FALSE, 0)
            /\ UNCHANGED fq
       ELSE /\ fq + CategoryPages <= MaxQueued
            /\ fq' = fq + CategoryPages
            /\ lastCycle' = Cycle("schedule_product_fetch", wc["celery"],
                                  CategoryPages, TRUE, 0)
    /\ UNCHANGED <<products, price_history, deals, cq, cw, nq, worklogs, control_file, wc,
                   channel, bq, lastEval>>
    /\ UNCHANGED nonSys

NextCtl ==
    \/ PauseScheduler
    \/ ResumeScheduler
    \/ \E x \in Processes : RestartProcess(x)
    \/ ContinuousQueueRefill
    \/ \E tier \in Tiers : ScheduleTierChecks(tier)
    \/ BatchPriceCheck
    \/ ScheduleProductFetch
    \/ ScheduleNotifications
    \/ ManagerSendTelegram

\* the job types whose cycles follow
CycleJobTypes == {"check_prices", "fetch_products"}

\* the cycles of the two schedulers under the switches of their job types
NextJobs ==
    \/ \E job_type \in CycleJobTypes : DisableJob(job_type)
    \/ \E job_type \in CycleJobTypes : EnableJob(job_type)
    \/ \E x \in Processes : RestartProcess(x)
    \/ ContinuousQueueRefill
    \/ ScheduleProductFetch
    \/ ManagerCheckPrices

(***************************************************************************)
(* BATCH SELECTION  --  SmartBatchProcessor, the tier queries of            *)
(* continuous_queue_refill, PriceChecker._get_products_needing_check        *)
(*                                                                          *)
(* The selection queries are functions of the products table and of         *)
(* datetime.utcnow().  Time is in minutes; NULL is the SQL NULL of          *)
(* last_checked_at, and a comparison with NULL is not true.                 *)
(***************************************************************************)
NumCatalog == 1
NumOldest == 3
NumBkItems == 3
NumCoroutines == 3
FirstCrawlAt == 10
MaxClock == 22
\* AmazonCrawler.__init__, amazon_crawler.py:64-66
crawler_min_interval == 5
crawler_max_interval == 8
crawler_semaphore == 2
NumTqProducts == 4
\* .limit(200) of the critical tier, celery_tasks.py:381, scaled down with
\* the table
tier_limit == 2
NumSweepProducts == 3
\* batch_size of update_product_priorities, 1000 in celery_tasks.py:639,
\* scaled down with the table
sweep_batch_size == 2
NumIds == 2
MaxIds == 5
MaxBatchSize == 3
NumEnqRows == 2
MaxCycles == 2
MaxLimit == 2
UtcNow == 3000
NULL == -1

CatalogIds == 1..NumCatalog

\* the re-check intervals of the queries, in minutes
RefillIntervals == {15, 30, 60, 120, 240, 480}
TierIntervals == {60, 360, 1440}
hours_overdue == 48
check_interval_hours == 6

SelIntervals ==
    RefillIntervals \cup TierIntervals \cup {hours_overdue * 60, check_interval_hours * 60}

\* how long ago a product was checked: just now, exactly an interval ago, or a
\* minute more than an interval ago
SelAges == {0} \cup SelIntervals \cup {i + 1 : i \in SelIntervals}

\* one value of check_priority for every band of the queries
SelPriorities == {20, 35, 45, 60, 75, 85, 95}

CatalogRows ==
    [check_priority : SelPriorities, is_available : BOOLEAN, is_active : BOOLEAN,
     has_active_deal : BOOLEAN,
     last_checked_at : {NULL} \cup {UtcNow - a : a \in SelAges}]

NoSel == [op |-> "none", returned |-> {}, interval |-> [p \in {} |-> 0], limit |-> 0]

\* a product that was never checked
NewCatalogRow ==
    [check_priority |-> 50, is_available |-> TRUE, is_active |-> TRUE,
     has_active_deal |-> FALSE, last_checked_at |-> NULL]

InitSelVars ==
    /\ catalog = [p \in CatalogIds |-> NewCatalogRow]
    /\ sel = NoSel

\* the filter of the tier queries without the cutoff
AnyTime(row, cutoff_time) == TRUE

\* Product.last_checked_at < cutoff_time
CheckedBefore(row, cutoff_time) ==
    row.last_checked_at # NULL /\ row.last_checked_at < cutoff_time

\* or_(Product.last_checked_at == None, Product.last_checked_at < cutoff)
NeverOrBefore(row, cutoff_time) ==
    row.last_checked_at = NULL \/ CheckedBefore(row, cutoff_time)

\* query.limit(n).all(): any n of the matching rows, all of them if fewer
Limit(S, n) == {T \in SUBSET S : Cardinality(T) = Min(n, Cardinality(S))}

\* the record of a selection whose products all come from one query
Selection(op, returned, minutes, limit) ==
    [op |-> op, returned |-> returned, interval |-> [p \in returned |-> minutes],
     limit |-> limit]

\* a is before b in last_checked_at.asc().nullsfirst()
CheckedEarlier(a, b) ==
    \/ a.last_checked_at = NULL /\ b.last_checked_at # NULL
    \/ a.last_checked_at # NULL /\ b.last_checked_at # NULL
          /\ a.last_checked_at < b.last_checked_at

\* query.order_by(last_checked_at).limit(n).all(): the first n rows of the
\* order, rows with equal last_checked_at in any order
OrderedLimit(S, n) ==
    {T \in Limit(S, n) :
        \A p \in S \ T, q \in T : ~CheckedEarlier(catalog[p], catalog[q])}

\* get_high_priority_batches: the products with an active deal, then the
\* products of priority >= 80 that are not among them
GetHighPriorityBatches(limit) ==
    /\ \E deal_products \in
            Limit({p \in DOMAIN catalog :
                     /\ catalog[p].has_active_deal
                     /\ catalog[p].is_available
                     /\ CheckedBefore(catalog[p], UtcNow - 60)}, limit) :
          \E high_priority \in
                Limit({p \in DOMAIN catalog :
                         /\ catalog[p].check_priority >= 80
                         /\ catalog[p].is_available
                         /\ CheckedBefore(catalog[p], UtcNow - 60)
                         /\ p \notin deal_products},
                      limit - Cardinality(deal_products)) :
              sel' = Selection("get_high_priority_batches",
                               deal_products \cup high_priority, 60, limit)
    /\ UNCHANGED catalog
    /\ UNCHANGED nonSel

\* get_medium_priority_batches
GetMediumPriorityBatches(limit) ==
    /\ \E products_ \in
            Limit({p \in DOMAIN catalog :
                     /\ catalog[p].check_priority >= 40
                     /\ catalog[p].check_priority < 80
                     /\ catalog[p].is_available
                     /\ CheckedBefore(catalog[p], UtcNow - 6 * 60)}, limit) :
          sel' = Selection("get_medium_priority_batches", products_, 6 * 60, limit)
    /\ UNCHANGED catalog
    /\ UNCHANGED nonSel

\* get_low_priority_batches
GetLowPriorityBatches(limit) ==
    /\ \E products_ \in
            Limit({p \in DOMAIN catalog :
                     /\ catalog[p].check_priority < 40
                     /\ catalog[p].is_available
                     /\ CheckedBefore(catalog[p], UtcNow - 24 * 60)}, limit) :
          sel' = Selection("get_low_priority_batches", products_, 24 * 60, limit)
    /\ UNCHANGED catalog
    /\ UNCHANGED nonSel

\* get_overdue_batches
GetOverdueBatches ==
    /\ \E products_ \in
            OrderedLimit({p \in DOMAIN catalog :
                     /\ CheckedBefore(catalog[p], UtcNow - hours_overdue * 60)
                     /\ catalog[p].is_available}, 50000) :
          sel' = Selection("get_overdue_batches", products_, hours_overdue * 60, 50000)
    /\ UNCHANGED catalog
    /\ UNCHANGED nonSel

\* one tier query of continuous_queue_refill: the active products of a
\* priority band that were never checked or not within the interval
RefillTier(lo, hi, minutes, limit) ==
    Limit({p \in DOMAIN catalog :
             /\ catalog[p].is_active
             /\ catalog[p].check_priority >= lo
             /\ catalog[p].check_priority < hi
             /\ NeverOrBefore(catalog[p], UtcNow - minutes)}, limit)

\* the six tier queries of continuous_queue_refill and all_products
RefillQueries ==
    /\ \E critical \in RefillTier(90, 101, 15, 200),
          very_high \in RefillTier(80, 90, 30, 300),
          high \in RefillTier(70, 80, 60, 400),
          medium_high \in RefillTier(50, 70, 120, 500),
          medium \in RefillTier(30, 50, 240, 600),
          low \in RefillTier(0, 30, 480, 800) :
          LET all_products ==
                  critical \cup very_high \cup high \cup medium_high \cup medium \cup low
          IN  sel' = [op |-> "continuous_queue_refill",
                      returned |-> all_products,
                      interval |-> [p \in all_products |->
                                      IF p \in critical THEN 15
                                      ELSE IF p \in very_high THEN 30
                                      ELSE IF p \in high THEN 60
                                      ELSE IF p \in medium_high THEN 120
                                      ELSE IF p \in medium THEN 240
                                      ELSE 480],
                      limit |-> 200 + 300 + 400 + 500 + 600 + 800]
    /\ UNCHANGED catalog
    /\ UNCHANGED nonSel

\* PriceChecker._get_products_needing_check
GetProductsNeedingCheck(limit) ==
    /\ \E products_ \in
            OrderedLimit({p \in DOMAIN catalog :
                     /\ catalog[p].is_active
                     /\ NeverOrBefore(catalog[p], UtcNow - check_interval_hours * 60)},
                  limit) :
          sel' = Selection("_get_products_needing_check", products_,
                           check_interval_hours * 60, limit)
    /\ UNCHANGED catalog
    /\ UNCHANGED nonSel

NextSelect ==
    \/ GetHighPriorityBatches(10000)
    \/ GetMediumPriorityBatches(50000)
    \/ GetLowPriorityBatches(100000)
    \/ GetOverdueBatches
    \/ RefillQueries
    \/ GetProductsNeedingCheck(500)

\* tables of NumOldest available, active products without a deal, of the
\* medium and of the low band, never checked, just checked, or checked a
\* minute more than 24 or 48 hours ago
OldestRows ==
    [check_priority : {20, 45}, is_available : {TRUE}, is_active : {TRUE},
     has_active_deal : {FALSE},
     last_checked_at : {NULL, UtcNow, UtcNow - (24 * 60 + 1), UtcNow - (48 * 60 + 1)}]

\* the queries with a per-cycle limit that the table can exceed
NextOldest ==
    \/ \E limit \in 1..MaxLimit : GetMediumPriorityBatches(limit)
    \/ \E limit \in 1..MaxLimit : GetLowPriorityBatches(limit)
    \/ \E limit \in 1..MaxLimit : GetProductsNeedingCheck(limit)

\* the rows the query of the last selection matches
DueOf(op) ==
    {p \in DOMAIN catalog :
        CASE op = "get_medium_priority_batches" ->
                 /\ catalog[p].check_priority >= 40
                 /\ catalog[p].check_priority < 80
                 /\ catalog[p].is_available
                 /\ CheckedBefore(catalog[p], UtcNow - 6 * 60)
          [] op = "get_low_priority_batches" ->
                 /\ catalog[p].check_priority < 40
                 /\ catalog[p].is_available
                 /\ CheckedBefore(catalog[p], UtcNow - 24 * 60)
          [] op = "_get_products_needing_check" ->
                 /\ catalog[p].is_active
                 /\ NeverOrBefore(catalog[p], UtcNow - check_interval_hours * 60)
          [] OTHER -> FALSE}

(***************************************************************************)
(* PROXY ROTATION  --  services/proxy_manager.py                            *)
(*                                                                          *)
(* A route is named by its position in ProxyManager.proxies; the URLs of    *)
(* the configured routes are distinct.                                      *)
(***************************************************************************)
NumRoutes == 3
MaxFailures == 6
MaxIndex == 6
failure_limit == 5

NoRoute == 0

\* proxies: the list self.proxies, one record per configured route
NewProxy == [failures |-> 0]

\* what the model remembers of the calls of get_proxy:
\*   called    - get_proxy has returned at least once
\*   returned  - the route the last call returned, NoRoute for None
\*   failures  - the failure count that route had when the call began
\*   all_failed - every route was at or over the limit when the call began
\*   healthy   - a route was under the limit when the call began
\*   after     - the failure counts when the call returned
\*   run_set   - the routes under the limit when the call began
\*   run       - the routes returned by the latest consecutive calls that
\*               began with that same set of routes under the limit, at most
\*               as many as the set has routes
\*   issued    - the routes handed out so far
NoCalls ==
    [called |-> FALSE, returned |-> NoRoute, failures |-> 0, all_failed |-> FALSE,
     healthy |-> FALSE, after |-> << >>, run_set |-> {}, run |-> << >>,
     issued |-> {}]

InitPxVars ==
    /\ proxies = [i \in 1..NumRoutes |-> NewProxy]
    /\ current_index = 0
    /\ px = NoCalls

\* [p for p in self.proxies if p['failures'] < 5], as positions
AvailableProxies(ps) ==
    SelectSeq([i \in 1..Len(ps) |-> i], LAMBDA i : ps[i].failures < failure_limit)

HealthySet(ps) == {i \in 1..Len(ps) : ps[i].failures < failure_limit}

\* get_proxy without the reset of the failure counts
KeepFailures(ps) == ps

\* "All proxies failed, resetting failure counts"
ResetFailures(ps) ==
    IF AvailableProxies(ps) = << >>
    THEN [i \in 1..Len(ps) |-> [ps[i] EXCEPT !.failures = 0]]
    ELSE ps

\* selection of the first available route at every call
FirstAvailable(available, index) == available[1]

\* available_proxies[self.current_index % len(available_proxies)]
RoundRobin(available, index) == available[(index % Len(available)) + 1]

\* the last n entries of a sequence
LastN(s, n) == IF Len(s) <= n THEN s ELSE SubSeq(s, Len(s) - n + 1, Len(s))

\* get_proxy on the state (ps, index): the route it returns and the state it
\* leaves
GetProxyResult(ps, index) ==
    IF ps = << >>
    THEN [proxy |-> NoRoute, proxies |-> ps, current_index |-> index]
    ELSE LET available == IF AvailableProxies(ps) = << >>
                          THEN [i \in 1..Len(ps) |-> i]
                          ELSE AvailableProxies(ps)
         IN  [proxy |-> RoundRobin(available, index),
              proxies |-> ResetFailures(ps),
              current_index |-> index + 1]

\* the record of a call of get_proxy that began in (ps, index)
CallRecord(log, ps, result) ==
    [called |-> TRUE,
     returned |-> result.proxy,
     failures |-> IF result.proxy = NoRoute THEN 0 ELSE ps[result.proxy].failures,
     all_failed |-> ps # << >> /\ HealthySet(ps) = {},
     healthy |-> HealthySet(ps) # {},
     after |-> result.proxies,
     run_set |-> HealthySet(ps),
     run |-> IF result.proxy = NoRoute \/ HealthySet(ps) = {} THEN << >>
             ELSE IF HealthySet(ps) = log.run_set
             THEN LastN(Append(log.run, result.proxy), Cardinality(HealthySet(ps)))
             ELSE <<result.proxy>>,
     issued |-> IF result.proxy = NoRoute THEN log.issued
                ELSE log.issued \cup {result.proxy}]

\* mark_proxy_failed of a route that get_proxy handed out
MarkProxyFailedResult(ps, r) == [ps EXCEPT ![r].failures = @ + 1]

\* mark_proxy_success of a route that get_proxy handed out
MarkProxySuccessResult(ps, r) == [ps EXCEPT ![r].failures = 0]

GetProxy ==
    /\ current_index < MaxIndex
    /\ \E result \in {GetProxyResult(proxies, current_index)} :
          /\ proxies' = result.proxies
          /\ current_index' = result.current_index
          /\ px' = CallRecord(px, proxies, result)
    /\ UNCHANGED nonPx

MarkProxyFailed(r) ==
    /\ r \in px.issued
    /\ proxies[r].failures < MaxFailures
    /\ proxies' = MarkProxyFailedResult(proxies, r)
    /\ UNCHANGED <<current_index, px>>
    /\ UNCHANGED nonPx

MarkProxySuccess(r) ==
    /\ r \in px.issued
    /\ proxies' = MarkProxySuccessResult(proxies, r)
    /\ UNCHANGED <<current_index, px>>
    /\ UNCHANGED nonPx

NextProxy ==
    \/ GetProxy
    \/ \E r \in 1..NumRoutes : MarkProxyFailed(r)
    \/ \E r \in 1..NumRoutes : MarkProxySuccess(r)

(***************************************************************************)
(* CRAWL TIER  --  AmazonCrawler.get_product_async,                         *)
(* services/amazon_crawler.py                                               *)
(***************************************************************************)
default_max_retries == 2
MaxRetriesArg == 2

\* the answers to one request: a page with or without a price, a 404, another
\* HTTP error status, an exception before the response (timeout, connection
\* error), or an exception while the page is parsed
CrawlOutcomes == {"price", "no_price", "404", "http_error", "exception", "parse_error"}

\* pc: where the coroutine is; attempt: the loop variable; requests: the
\* requests made by this call; last: the answer to the latest request;
\* result: "data" for a product_data dict, "None" for None
CrawlIdle ==
    [pc |-> "idle", max_retries |-> 0, attempt |-> 0, requests |-> 0,
     proxy |-> NoRoute, last |-> "none", result |-> "none", is_available |-> FALSE]

InitCrVars == cr = CrawlIdle

\* get_product_async(asin, max_retries) is called; attempt = 0
CrawlCall(max_retries) ==
    /\ cr.pc \in {"idle", "done"}
    /\ current_index + max_retries + 1 <= MaxIndex
    /\ cr' = [CrawlIdle EXCEPT !.pc = "attempt", !.max_retries = max_retries]
    /\ UNCHANGED pxvars
    /\ UNCHANGED nonCr

\* the head of the loop body: proxy = self.proxy_manager.get_proxy(), then
\* the request is sent
CrawlRequest ==
    /\ cr.pc = "attempt"
    /\ cr.attempt <= cr.max_retries
    /\ \E got \in {GetProxyResult(proxies, current_index)} :
          /\ proxies' = got.proxies
          /\ current_index' = got.current_index
          /\ px' = CallRecord(px, proxies, got)
          /\ cr' = [cr EXCEPT !.pc = "request", !.proxy = got.proxy,
                              !.requests = @ + 1]
    /\ UNCHANGED nonCr

\* the coroutine that takes a 404 for one more failed attempt
CrawlStepRetry404(c, outcome) ==
    IF outcome \in {"price", "no_price"}
    THEN [c EXCEPT !.pc = "done", !.last = outcome, !.result = "data",
                   !.is_available = (outcome = "price")]
    ELSE IF c.attempt < c.max_retries
    THEN [c EXCEPT !.pc = "backoff", !.last = outcome]
    ELSE [c EXCEPT !.pc = "done", !.last = outcome, !.result = "None"]

\* what the coroutine does with the answer to its request
CrawlStep(c, outcome) ==
    IF outcome \in {"price", "no_price"}
    THEN [c EXCEPT !.pc = "done", !.last = outcome, !.result = "data",
                   !.is_available = (outcome = "price")]
    ELSE IF outcome = "404"
    THEN [c EXCEPT !.pc = "done", !.last = outcome, !.result = "None"]
    ELSE IF c.attempt < c.max_retries
    THEN [c EXCEPT !.pc = "backoff", !.last = outcome]
    ELSE [c EXCEPT !.pc = "done", !.last = outcome, !.result = "None"]

\* the request is answered: the proxy is marked, and the call returns or
\* goes to sleep before the next attempt
CrawlResponse(outcome) ==
    /\ cr.pc = "request"
    /\ cr' = CrawlStep(cr, outcome)
    /\ proxies' = IF cr.proxy = NoRoute THEN proxies
                  ELSE IF outcome \in {"price", "no_price"}
                  THEN MarkProxySuccessResult(proxies, cr.proxy)
                  ELSE IF outcome = "parse_error"
                  THEN MarkProxyFailedResult(MarkProxySuccessResult(proxies, cr.proxy),
                                             cr.proxy)
                  ELSE MarkProxyFailedResult(proxies, cr.proxy)
    /\ UNCHANGED <<current_index, px>>
    /\ UNCHANGED nonCr

\* asyncio.sleep(2 ** attempt) is over: the next iteration of the loop
CrawlBackoffOver ==
    /\ cr.pc = "backoff"
    /\ cr' = [cr EXCEPT !.pc = "attempt", !.attempt = @ + 1]
    /\ UNCHANGED pxvars
    /\ UNCHANGED nonCr

NextCrawl ==
    \/ \E max_retries \in 0..MaxRetriesArg : CrawlCall(max_retries)
    \/ CrawlRequest
    \/ \E outcome \in CrawlOutcomes : CrawlResponse(outcome)
    \/ CrawlBackoffOver

\* every request is answered or times out (httpx timeout = 30 s), every sleep
\* ends, and the event loop runs a coroutine that is ready
FairCrawl ==
    /\ WF_vars(CrawlRequest)
    /\ WF_vars(\E outcome \in CrawlOutcomes : CrawlResponse(outcome))
    /\ WF_vars(CrawlBackoffOver)

(***************************************************************************)
(* PRIORITY CALCULATOR  --  services/priority_calculator.py                 *)
(*                                                                          *)
(* The score is a float in the code; here it is kept in thousandths of a    *)
(* point and the coefficient of variation in tenths of a percent, both      *)
(* rounded down.  Prices are in whole TRY, ratings in tenths of a star,     *)
(* ages in hours and days; NULL is a column without a value.                *)
(***************************************************************************)
MaxPrRows == 4
baseline_priority == 40
weight_has_active_deal == 50
weight_volatility == 25
weight_popularity == 15
weight_recency == 10

\* floor of the square root, by bisection: lo * lo <= x < hi * hi
RECURSIVE IsqrtIn(_, _, _)
IsqrtIn(x, lo, hi) ==
    IF hi - lo <= 1 THEN lo
    ELSE LET mid == (lo + hi) \div 2
         IN  IF mid * mid <= x THEN IsqrtIn(x, mid, hi) ELSE IsqrtIn(x, lo, mid)

Isqrt(x) == IsqrtIn(x, 0, 46340)

RECURSIVE SumSq(_)
SumSq(s) == IF s = << >> THEN 0 ELSE Head(s) * Head(s) + SumSq(Tail(s))

\* _calculate_volatility_score times weights['volatility'] / 100, in
\* thousandths; history is the rows of the last 30 days with is_available
VolatilityPoints(history) ==
    LET prices == PricesOf(history)
        n == Len(prices)
        total == SumPrice(prices)
        \* n * n * variance
        spread == n * SumSq(prices) - total * total
        \* std_dev / mean_price * 100, in tenths of a percent
        cv == (Isqrt(spread * 10000) * 10) \div total
    IN  IF Len(history) < 3 THEN 70 * weight_volatility * 10
        ELSE IF n < 2 THEN 70 * weight_volatility * 10
        ELSE IF total <= 0 THEN 0
        \* cv_percentage >= 20
        ELSE IF 25 * spread >= total * total THEN 100 * weight_volatility * 10
        \* cv_percentage <= 2
        ELSE IF 2500 * spread <= total * total THEN 0
        \* (cv_percentage - 2) / 18 * 100
        ELSE ((cv - 20) * weight_volatility * 1000) \div 180

\* _calculate_popularity_score, 0..100
PopularityScore(product) ==
    LET reviews == IF product.review_count >= 5000 THEN 60
                   ELSE IF product.review_count >= 1000 THEN 50
                   ELSE IF product.review_count >= 500 THEN 40
                   ELSE IF product.review_count >= 100 THEN 30
                   ELSE IF product.review_count >= 50 THEN 20
                   ELSE IF product.review_count >= 10 THEN 10
                   ELSE 0
        stars == IF product.rating >= 45 THEN 40
                 ELSE IF product.rating >= 40 THEN 30
                 ELSE IF product.rating >= 35 THEN 20
                 ELSE IF product.rating >= 30 THEN 10
                 ELSE 0
    IN  Min(reviews + stars, 100)

\* _calculate_recency_score, 0..100
RecencyScore(product) ==
    IF product.hours_since_check = NULL THEN 100
    ELSE IF product.hours_since_check >= 48 THEN 100
    ELSE IF product.hours_since_check >= 24 THEN 80
    ELSE IF product.hours_since_check >= 12 THEN 60
    ELSE IF product.hours_since_check >= 6 THEN 40
    ELSE IF product.hours_since_check >= 3 THEN 20
    ELSE 0

\* int(score) without the cap
IntScore(score) == score \div 1000

\* min(int(score), 100)
ClampScore(score) == Min(score \div 1000, 100)

\* calculate_priority
CalculatePriority(product, has_active_deal, history) ==
    LET s0 == baseline_priority * 1000
        s1 == IF has_active_deal THEN weight_has_active_deal * 1000 ELSE 0
        s2 == VolatilityPoints(history)
        s3 == PopularityScore(product) * weight_popularity * 10
        s4 == RecencyScore(product) * weight_recency * 10
        s5 == IF product.hours_since_check = NULL THEN 20 * 1000 ELSE 0
        s6 == IF product.days_since_creation # NULL /\ product.days_since_creation <= 7
              THEN 15 * 1000 ELSE 0
    IN  ClampScore(s0 + s1 + s2 + s3 + s4 + s5 + s6)

PrReviews == {0, 10, 100, 5000, 10000000}
PrRatings == {0, 30, 45}
PrHours == {NULL, 0, 3, 12, 48}
PrDays == {NULL, 0, 30}
PrRowPrices == {50, 90, 100}

PrProducts ==
    [review_count : PrReviews, rating : PrRatings, hours_since_check : PrHours,
     days_since_creation : PrDays]

PrHistories ==
    UNION {[1..n -> [price : PrRowPrices, is_available : {TRUE}]] : n \in 0..MaxPrRows}

PrInputs ==
    [called : {FALSE}, product : PrProducts, has_active_deal : BOOLEAN,
     history : PrHistories, result : {0}]

InitPrVars == pr = [called |-> FALSE]

\* calculate_priority(product, db)
CalculatePriorityCall ==
    /\ ~pr.called
    /\ pr' = [pr EXCEPT !.called = TRUE,
                        !.result = CalculatePriority(pr.product, pr.has_active_deal,
                                                     pr.history)]
    /\ UNCHANGED nonPr

NextPriority == CalculatePriorityCall

(***************************************************************************)
(* DATA FETCHER  --  AmazonPAAPIClient.__init__ and get_products_batch,     *)
(* services/amazon_client.py                                                *)
(***************************************************************************)
NumAsins == 3
NumRunProducts == 3
NumTasks == 3
NumProcs == 3
NumMgrProcs == 2
NumMgrRoutes == 2
MaxMgrIndex == 5
\* self.batch_size, 10 in price_checker_v2.py:31, scaled down with the table
batch_size == 2
stop_after_attempt == 3

Asins == 1..NumAsins

\* the client before __init__ has run
NoClient ==
    [pc |-> "new", paapi |-> FALSE, credentials |-> FALSE, enabled |-> FALSE,
     has_rate_limiter |-> FALSE, has_crawler |-> FALSE,
     asins |-> {}, attempt |-> 0, api_calls |-> 0, crawler_calls |-> 0,
     outcome |-> "none", items |-> {}, crawled |-> {}]

InitFcVars == fc = NoClient

\* __init__: paapi is PAAPI_AVAILABLE, credentials is all([access_key,
\* secret_key, partner_tag]), api_ok is "AmazonApi(...) did not raise".  The
\* two early returns leave rate_limiter and crawler unset.
ClientInit(paapi, credentials, api_ok) ==
    IF ~paapi \/ ~credentials
    THEN [NoClient EXCEPT !.pc = "ready", !.paapi = paapi, !.credentials = credentials,
                          !.enabled = FALSE]
    ELSE [NoClient EXCEPT !.pc = "ready", !.paapi = paapi, !.credentials = credentials,
                          !.has_rate_limiter = TRUE,
                          !.enabled = api_ok,
                          !.has_crawler = TRUE]

Construct(paapi, credentials, api_ok) ==
    /\ fc.pc = "new"
    /\ fc' = ClientInit(paapi, credentials, api_ok)
    /\ UNCHANGED nonFc

\* a call of get_products_batch(asins) enters the retry wrapper
BatchCall(asins) ==
    /\ fc.pc \in {"ready", "done"}
    /\ fc' = [fc EXCEPT !.pc = "calling", !.asins = asins, !.attempt = 1,
                        !.api_calls = 0, !.crawler_calls = 0, !.outcome = "none",
                        !.items = {}, !.crawled = {}]
    /\ UNCHANGED nonFc

\* the function returns: the retry wrapper hands the value on
Returned(c, items, api_calls, crawler_calls, crawled) ==
    [c EXCEPT !.pc = "done", !.outcome = "returned", !.items = items,
              !.api_calls = c.api_calls + api_calls,
              !.crawler_calls = c.crawler_calls + crawler_calls,
              !.crawled = crawled]

\* the function raises: retry(stop=stop_after_attempt(3), retry on Exception)
\* runs it again, and raises RetryError after the third attempt
Raised(c) ==
    IF c.attempt < stop_after_attempt
    THEN [c EXCEPT !.attempt = c.attempt + 1]
    ELSE [c EXCEPT !.pc = "done", !.outcome = "raised"]

\* the loop over result.items: self._parse_item is defined nowhere, so every
\* item raises AttributeError, which the loop catches; products stays empty
ParsedItems(items) == {}

\* one run of the body of get_products_batch.  api is what get_items does
\* (raises, returns nothing, or returns items), crawled is the set of
\* identifiers for which the crawler gets a snapshot.
BatchBody(c, api, crawled) ==
    IF ~c.enabled
    THEN IF c.has_crawler
         THEN Returned(c, {<<a, "crawler">> : a \in c.asins \cap crawled}, 0, 1,
                       c.asins \cap crawled)
         \* self.crawler: AttributeError
         ELSE Raised(c)
    ELSE IF c.asins = {} THEN Returned(c, {}, 0, 0, {})
    ELSE IF api = "error"
    THEN Returned(c, {<<a, "crawler">> : a \in c.asins \cap crawled}, 1, 1,
                  c.asins \cap crawled)
    ELSE IF api = "nothing" THEN Returned(c, {}, 1, 0, {})
    ELSE LET products_ == ParsedItems(c.asins)
             missing_asins == c.asins \ products_
         IN  IF missing_asins = {}
             THEN Returned(c, {<<a, "api">> : a \in products_}, 1, 0, {})
             ELSE Returned(c, {<<a, "api">> : a \in products_}
                                 \cup {<<a, "crawler">> : a \in missing_asins \cap crawled},
                           1, 1, missing_asins \cap crawled)

BatchAttempt(api, crawled) ==
    /\ fc.pc = "calling"
    /\ fc' = BatchBody(fc, api, crawled)
    /\ UNCHANGED nonFc

NextClient ==
    \/ \E paapi \in BOOLEAN, credentials \in BOOLEAN, api_ok \in BOOLEAN :
          Construct(paapi, credentials, api_ok)
    \/ \E asins \in SUBSET Asins : BatchCall(asins)
    \/ \E api \in {"error", "nothing", "items"}, crawled \in SUBSET Asins :
          BatchAttempt(api, crawled)

(***************************************************************************)
(* RATE LIMITER OF ONE PROCESS WITH AN UNRELIABLE STORE  --  RateLimiter,   *)
(* services/amazon_client.py                                                *)
(*                                                                          *)
(* One worker process is followed from the construction of its RateLimiter  *)
(* through its calls of wait_if_needed, while Redis goes down and comes     *)
(* back and the other processes take and release the lock.  Times are ages  *)
(* in seconds, as in the rate limiter above.                                *)
(***************************************************************************)
\* the RateLimiter object before __init__ has run
LimNew ==
    [pc |-> "new", use_redis |-> FALSE, last_call |-> min_interval, waited |-> 0,
     sleep |-> 0, since |-> min_interval, last |-> "none", last_gap |-> min_interval]

InitLimVars ==
    /\ store = [up |-> TRUE, key |-> KEY_EX, lock |-> 0]
    /\ lim = LimNew

\* Redis becomes unreachable / reachable again; its keys live on
StoreFails ==
    /\ store.up
    /\ store' = [store EXCEPT !.up = FALSE]
    /\ UNCHANGED lim
    /\ UNCHANGED nonLim

StoreRecovers ==
    /\ ~store.up
    /\ store' = [store EXCEPT !.up = TRUE]
    /\ UNCHANGED lim
    /\ UNCHANGED nonLim

\* another process takes the lock, or deletes it
OtherLocks ==
    /\ store.up
    /\ store.lock = 0
    /\ store' = [store EXCEPT !.lock = LOCK_EX]
    /\ UNCHANGED lim
    /\ UNCHANGED nonLim

OtherUnlocks ==
    /\ store.up
    /\ store.lock > 0
    /\ lim.pc \in {"idle", "loop"}
    /\ store' = [store EXCEPT !.lock = 0, !.key = 0]
    /\ UNCHANGED lim
    /\ UNCHANGED nonLim

\* __init__: ping() decides use_redis once; self.last_call = 0 on the local
\* path
LimConstruct ==
    /\ lim.pc = "new"
    /\ lim' = [LimNew EXCEPT !.pc = "idle", !.use_redis = store.up]
    /\ UNCHANGED store
    /\ UNCHANGED nonLim

\* wait_if_needed returns by the way `how`: the gap to the previous return of
\* this process is recorded
LimReturn(l, how) ==
    [l EXCEPT !.pc = "idle", !.waited = 0, !.sleep = 0, !.since = 0,
              !.last = how, !.last_gap = l.since]

\* the local limiter returns: self.last_call = time.time()
LimReturnLocal(l) == [LimReturn(l, "local") EXCEPT !.last_call = 0]

\* except Exception: "proceeding without rate limit"; the delete of the lock
\* in the handler fails as well while the store is down
LimReturnError(l) == LimReturn(l, "error")

LimCall ==
    /\ lim.pc = "idle"
    /\ lim' = [lim EXCEPT !.pc = IF lim.use_redis THEN "loop" ELSE "local"]
    /\ UNCHANGED store
    /\ UNCHANGED nonLim

\* the local path: elapsed = now - self.last_call
LimLocal ==
    /\ lim.pc = "local"
    /\ lim' = IF lim.last_call < min_interval
              THEN [lim EXCEPT !.pc = "lsleep", !.sleep = min_interval - lim.last_call]
              ELSE LimReturnLocal(lim)
    /\ UNCHANGED store
    /\ UNCHANGED nonLim

LimLocalWake ==
    /\ lim.pc = "lsleep"
    /\ lim.sleep = 0
    /\ lim' = LimReturnLocal(lim)
    /\ UNCHANGED store
    /\ UNCHANGED nonLim

\* SET lock NX EX 2 in the loop: an exception when the store is down
LimTryLock ==
    /\ lim.pc = "loop"
    /\ lim.waited < max_wait
    /\ \/ /\ ~store.up
          /\ lim' = LimReturnError(lim)
          /\ UNCHANGED store
       \/ /\ store.up
          /\ store.lock = 0
          /\ store' = [store EXCEPT !.lock = LOCK_EX]
          /\ lim' = [lim EXCEPT !.pc = "locked", !.waited = 0]
    /\ UNCHANGED nonLim

\* "Failed to acquire rate limit lock, proceeding anyway"
LimGiveUp ==
    /\ lim.pc = "loop"
    /\ lim.waited >= max_wait
    /\ lim' = LimReturn(lim, "gave_up")
    /\ UNCHANGED store
    /\ UNCHANGED nonLim

\* GET of the shared timestamp
LimCheck ==
    /\ lim.pc = "locked"
    /\ lim' = IF ~store.up THEN LimReturnError(lim)
              ELSE IF store.key < KEY_EX /\ store.key < min_interval
              THEN [lim EXCEPT !.pc = "sleep", !.sleep = min_interval - store.key]
              ELSE [lim EXCEPT !.pc = "update"]
    /\ UNCHANGED store
    /\ UNCHANGED nonLim

LimWake ==
    /\ lim.pc = "sleep"
    /\ lim.sleep = 0
    /\ lim' = [lim EXCEPT !.pc = "update"]
    /\ UNCHANGED store
    /\ UNCHANGED nonLim

\* SET of the shared timestamp
LimUpdate ==
    /\ lim.pc = "update"
    /\ IF ~store.up
       THEN /\ lim' = LimReturnError(lim)
            /\ UNCHANGED store
       ELSE /\ store' = [store EXCEPT !.key = 0]
            /\ lim' = [lim EXCEPT !.pc = "release"]
    /\ UNCHANGED nonLim

\* DELETE of the lock, and the return
LimRelease ==
    /\ lim.pc = "release"
    /\ IF ~store.up
       THEN /\ lim' = LimReturnError(lim)
            /\ UNCHANGED store
       ELSE /\ store' = [store EXCEPT !.lock = 0]
            /\ lim' = LimReturn(lim, "redis")
    /\ UNCHANGED nonLim

\* one second passes
LimTick ==
    /\ store' = [store EXCEPT !.lock = Max(@ - 1, 0), !.key = Min(@ + 1, KEY_EX)]
    /\ lim' = [lim EXCEPT !.last_call = Min(@ + 1, min_interval),
                          !.waited = IF lim.pc = "loop" THEN Min(@ + 1, max_wait) ELSE 0,
                          !.sleep = Max(@ - 1, 0),
                          !.since = Min(@ + 1, min_interval)]
    /\ UNCHANGED nonLim

NextLim ==
    \/ StoreFails
    \/ StoreRecovers
    \/ OtherLocks
    \/ OtherUnlocks
    \/ LimConstruct
    \/ LimCall
    \/ LimLocal
    \/ LimLocalWake
    \/ LimTryLock
    \/ LimGiveUp
    \/ LimCheck
    \/ LimWake
    \/ LimUpdate
    \/ LimRelease
    \/ LimTick

(***************************************************************************)
(* PriceChecker.run, ONE PRODUCT AT A TIME  --  jobs/price_checker_v2.py,   *)
(* WorkerManager.run_job                                                    *)
(*                                                                          *)
(* One run is followed through its batches and through the products of a    *)
(* batch.  A row of the session is "clean", "updated" (by                   *)
(* _update_product_price) or "no_data" (only last_checked_at written).      *)
(***************************************************************************)
RunProducts == 1..NumRunProducts

ZeroStats == [items_processed |-> 0, items_updated |-> 0, items_failed |-> 0]

NoLog == [status |-> "none", items_processed |-> 0, items_updated |-> 0, items_failed |-> 0]

RunIdle ==
    [pc |-> "idle", products_to_check |-> <<>>, i |-> 0, k |-> 0,
     items_dict |-> {}, batch_stats |-> ZeroStats, stats |-> ZeroStats,
     session |-> [p \in RunProducts |-> "clean"],
     committed |-> [p \in RunProducts |-> "clean"],
     fetched |-> {}, raised |-> {}, log |-> NoLog]

InitRunVars == run = RunIdle

\* the rows of a query in the order of the query: last_checked_at ascending,
\* the products being numbered from the one checked longest ago
RECURSIVE Ordered(_)
Ordered(S) ==
    IF S = {} THEN <<>>
    ELSE LET p == CHOOSE x \in S : \A y \in S : x <= y
         IN  <<p>> \o Ordered(S \ {p})

\* batch = products_to_check[i:i + self.batch_size]
Batch(r) ==
    SubSeq(r.products_to_check, r.i + 1, Min(r.i + batch_size, Len(r.products_to_check)))

BatchSet(r) == {Batch(r)[j] : j \in 1..Len(Batch(r))}

\* run_job: the WorkerLog row is updated from the result of the job
LogOf(status, stats) ==
    [status |-> status, items_processed |-> stats.items_processed,
     items_updated |-> stats.items_updated, items_failed |-> stats.items_failed]

\* the next batch of the for loop, or the end of the run: _expire_old_deals,
\* the last commit, and the log written by run_job
NextBatchOrEnd(r) ==
    IF r.i + batch_size < Len(r.products_to_check)
    THEN [r EXCEPT !.pc = "fetch", !.i = @ + batch_size, !.k = 0,
                   !.items_dict = {}, !.batch_stats = ZeroStats]
    ELSE [r EXCEPT !.pc = "done", !.k = 0, !.items_dict = {}, !.batch_stats = ZeroStats,
                   !.log = LogOf("completed", r.stats)]

\* except Exception in run: db.rollback(); stats["items_failed"] += len(batch);
\* continue.  The counts of the batch are lost with the exception.
BatchRaised(r) ==
    NextBatchOrEnd([r EXCEPT !.session = r.committed,
                             !.stats.items_failed = @ + Len(Batch(r))])

\* PriceChecker.run up to its first batch
RunStart(api_enabled, due) ==
    /\ run.pc \in {"idle", "done"}
    /\ run' = IF ~api_enabled
              THEN [RunIdle EXCEPT !.pc = "done", !.log = LogOf("skipped", ZeroStats)]
              ELSE IF due = {}
              THEN [RunIdle EXCEPT !.pc = "done", !.log = LogOf("completed", ZeroStats)]
              ELSE [RunIdle EXCEPT !.pc = "fetch", !.products_to_check = Ordered(due)]
    /\ UNCHANGED nonRun

\* _process_batch: the requests of the batch; an exception of the client
\* leaves _process_batch and is caught in run
RunFetch(fetch_raises, items) ==
    /\ run.pc = "fetch"
    /\ items \subseteq BatchSet(run)
    /\ run' = IF fetch_raises THEN BatchRaised(run)
              ELSE [run EXCEPT !.pc = "products", !.k = 1, !.items_dict = items,
                               !.fetched = @ \cup items]
    /\ UNCHANGED nonRun

\* _process_batch: one turn of `for product in products`; an exception of
\* _update_product_price is caught by no handler of the loop
RunProduct(update_raises) ==
    /\ run.pc = "products"
    /\ run.k <= Len(Batch(run))
    /\ LET p == Batch(run)[run.k]
           counted == [run EXCEPT !.batch_stats.items_processed = @ + 1, !.k = @ + 1]
       IN  run' = IF p \notin run.items_dict
                  THEN [counted EXCEPT !.session[p] = "no_data",
                                       !.batch_stats.items_failed = @ + 1]
                  ELSE IF update_raises
                  THEN BatchRaised([run EXCEPT !.raised = @ \cup {p}])
                  ELSE [counted EXCEPT !.session[p] = "updated",
                                       !.batch_stats.items_updated = @ + 1]
    /\ UNCHANGED nonRun

\* run: the counts of the batch are added and the batch is committed
RunCommitBatch ==
    /\ run.pc = "products"
    /\ run.k > Len(Batch(run))
    /\ run' = NextBatchOrEnd(
                [run EXCEPT !.committed = run.session,
                            !.stats = [items_processed |-> @.items_processed + run.batch_stats.items_processed,
                                       items_updated |-> @.items_updated + run.batch_stats.items_updated,
                                       items_failed |-> @.items_failed + run.batch_stats.items_failed]])
    /\ UNCHANGED nonRun

NextRun ==
    \/ \E api_enabled \in BOOLEAN, due \in SUBSET RunProducts : RunStart(api_enabled, due)
    \/ \E fetch_raises \in BOOLEAN, items \in SUBSET RunProducts : RunFetch(fetch_raises, items)
    \/ \E update_raises \in BOOLEAN : RunProduct(update_raises)
    \/ RunCommitBatch

(***************************************************************************)
(* CANCELLATION  --  cancel_task, backend/app/api/system.py                 *)
(*                                                                          *)
(* A task is "none" (not dispatched), "queued", "started", "success",       *)
(* "failure", "discarded" (revoked before a worker started it) or           *)
(* "terminated" (its process was killed while it ran).                      *)
(***************************************************************************)
TaskIds == 1..NumTasks

InitTkVars == tk = [state |-> [t \in TaskIds |-> "none"], revoked |-> {}]

\* apply_async / delay: the job is put on the queue
TaskDispatch(t) ==
    /\ tk.state[t] = "none"
    /\ tk' = [tk EXCEPT !.state[t] = "queued"]
    /\ UNCHANGED nonTk

\* a worker takes the job from the queue; a revoked job is discarded
TaskStart(t) ==
    /\ tk.state[t] = "queued"
    /\ tk' = [tk EXCEPT !.state[t] = IF t \in tk.revoked THEN "discarded" ELSE "started"]
    /\ UNCHANGED nonTk

\* the job returns or raises
TaskFinish(t, ok) ==
    /\ tk.state[t] = "started"
    /\ tk' = [tk EXCEPT !.state[t] = IF ok THEN "success" ELSE "failure"]
    /\ UNCHANGED nonTk

\* cancel_task: celery_app.control.revoke(task_id, terminate=True,
\* signal='SIGKILL'), for any task id and in any state of the task: the
\* workers remember the id as revoked, and the worker that is executing the
\* task kills the process that runs it
CancelTask(t) ==
    /\ tk' = [tk EXCEPT !.revoked = @ \cup {t},
                        !.state[t] = IF @ = "started" THEN "terminated" ELSE @]
    /\ UNCHANGED nonTk

NextCancel ==
    \/ \E t \in TaskIds : TaskDispatch(t)
    \/ \E t \in TaskIds : TaskStart(t)
    \/ \E t \in TaskIds, ok \in BOOLEAN : TaskFinish(t, ok)
    \/ \E t \in TaskIds : CancelTask(t)

(***************************************************************************)
(* CRAWL CONCURRENCY  --  AmazonCrawler.semaphore, check_product_price      *)
(*                                                                          *)
(* Every worker process runs one check_product_price at a time; the job     *)
(* constructs its own AmazonCrawler and awaits one get_product_async on it. *)
(***************************************************************************)
Procs == 1..NumProcs

\* self.semaphore = asyncio.Semaphore(2)
semaphore_value == 2

\* max_retries of get_product_async
crawl_max_retries == 2

SmIdle == [pc |-> "idle", semaphore |-> 0, attempt |-> 0]

InitSmVars == sm = [p \in Procs |-> SmIdle]

\* crawler = AmazonCrawler(use_proxies=True) in the job of process p
SmConstruct(p) ==
    /\ sm[p].pc = "idle"
    /\ sm' = [sm EXCEPT ![p] = [pc |-> "constructed", semaphore |-> semaphore_value,
                                attempt |-> 0]]
    /\ UNCHANGED nonSm

\* async with self.semaphore: the request of one attempt is in flight
SmAcquire(p) ==
    /\ sm[p].pc = "constructed"
    /\ sm[p].semaphore > 0
    /\ sm' = [sm EXCEPT ![p].pc = "in_flight", ![p].semaphore = @ - 1]
    /\ UNCHANGED nonSm

\* the request ends and the semaphore is released; the attempt was the last
\* one (a response, or the retries are used up) or another one follows
SmRelease(p, last) ==
    /\ sm[p].pc = "in_flight"
    /\ last \/ sm[p].attempt < crawl_max_retries
    /\ sm' = [sm EXCEPT ![p] = IF last THEN SmIdle
                               ELSE [pc |-> "constructed", semaphore |-> sm[p].semaphore + 1,
                                     attempt |-> sm[p].attempt + 1]]
    /\ UNCHANGED nonSm

InFlight == {p \in Procs : sm[p].pc = "in_flight"}

NextSem ==
    \/ \E p \in Procs : SmConstruct(p)
    \/ \E p \in Procs : SmAcquire(p)
    \/ \E p \in Procs, last \in BOOLEAN : SmRelease(p, last)

(***************************************************************************)
(* PROXY FAILURE COUNTERS OF SEVERAL PROCESSES  --  get_proxy_manager,      *)
(* services/proxy_manager.py                                                *)
(*                                                                          *)
(* Every worker process has its own module global _proxy_manager, created   *)
(* at the first call of get_proxy_manager in that process.                  *)
(***************************************************************************)
NewManager ==
    [proxies |-> [i \in 1..NumMgrRoutes |-> NewProxy], current_index |-> 0,
     proxy |-> NoRoute]

MgrProcs == 1..NumMgrProcs

InitMgrVars == mgr = [p \in MgrProcs |-> NewManager]

\* the crawler of process p: proxy = self.proxy_manager.get_proxy()
MgrGetProxy(p) ==
    /\ mgr[p].current_index < MaxMgrIndex
    /\ \E result \in {GetProxyResult(mgr[p].proxies, mgr[p].current_index)} :
          mgr' = [mgr EXCEPT ![p] = [proxies |-> result.proxies,
                                     current_index |-> result.current_index,
                                     proxy |-> result.proxy]]
    /\ UNCHANGED nonMgr

\* the crawler of process p: self.proxy_manager.mark_proxy_failed(proxy)
MgrMarkFailed(p) ==
    /\ mgr[p].proxy # NoRoute
    /\ mgr' = [mgr EXCEPT ![p].proxies = MarkProxyFailedResult(@, mgr[p].proxy),
                          ![p].proxy = NoRoute]
    /\ UNCHANGED nonMgr

\* the crawler of process p: self.proxy_manager.mark_proxy_success(proxy)
MgrMarkSuccess(p) ==
    /\ mgr[p].proxy # NoRoute
    /\ mgr' = [mgr EXCEPT ![p].proxies = MarkProxySuccessResult(@, mgr[p].proxy),
                          ![p].proxy = NoRoute]
    /\ UNCHANGED nonMgr

\* the failures of route r recorded in all processes together
RECURSIVE TotalFailures(_, _)
TotalFailures(r, n) ==
    IF n = 0 THEN 0 ELSE mgr[n].proxies[r].failures + TotalFailures(r, n - 1)

NextMgr ==
    \/ \E p \in MgrProcs : MgrGetProxy(p)
    \/ \E p \in MgrProcs : MgrMarkFailed(p)
    \/ \E p \in MgrProcs : MgrMarkSuccess(p)

(***************************************************************************)
(* get_items UNDER ITS RETRY DECORATOR  --  AmazonPAAPIClient.get_items,    *)
(* services/amazon_client.py                                                *)
(*                                                                          *)
(* One request (one call of the decorated get_items by its caller) is       *)
(* followed through the attempts that tenacity makes of the function body.  *)
(* tiers is the sequence of the calls the request has made: <<"api", o>>    *)
(* for self.api.get_items and <<"crawl", o>> for self.crawler.get_products, *)
(* o being what the call gave.                                              *)
(***************************************************************************)
\* get_items is decorated with @retry(stop=stop_after_attempt(3), ...)
\* without a retry argument: every exception of the body is retried

\* 'limit' in error_msg or 'throttl' in error_msg
RateLimitErrors == {"limit", "throttling"}

\* self.api.get_items: items, nothing, an exception whose text names a limit
\* or throttling, any other exception
ApiOutcomes == {"items", "empty", "error"} \cup RateLimitErrors

\* self.crawler.get_products: a list with items, an empty list, an exception
CrawlTierOutcomes == {"items", "none", "raises"}

GiIdle == [pc |-> "idle", attempt |-> 0, tiers |-> << >>, result |-> "none"]

InitGiVars == gi = GiIdle

\* the caller calls get_items(asins); a client that is not enabled, or no
\* asins, returns [] without a call
GiCall(enabled) ==
    /\ gi.pc \in {"idle", "done"}
    /\ gi' = IF enabled
             THEN [GiIdle EXCEPT !.pc = "body", !.attempt = 1]
             ELSE [GiIdle EXCEPT !.pc = "done", !.result = "empty"]
    /\ UNCHANGED nonGi

\* the body raised: tenacity calls it again, or raises RetryError after the
\* last attempt
GiRaised(g) ==
    IF g.attempt < stop_after_attempt
    THEN [g EXCEPT !.attempt = @ + 1]
    ELSE [g EXCEPT !.pc = "done", !.result = "RetryError"]

\* one run of the body of get_items
GiBody(api, crawl) ==
    /\ gi.pc = "body"
    /\ LET called == [gi EXCEPT !.tiers = Append(@, <<"api", api>>)]
           crawled == [called EXCEPT !.tiers = Append(@, <<"crawl", crawl>>)]
       IN  gi' = CASE api = "items" -> [called EXCEPT !.pc = "done", !.result = "items"]
                   [] api = "empty" -> [called EXCEPT !.pc = "done", !.result = "empty"]
                   [] api \in RateLimitErrors ->
                        IF crawl = "items"
                        THEN [crawled EXCEPT !.pc = "done", !.result = "crawled"]
                        ELSE GiRaised(crawled)
                   [] OTHER -> GiRaised(called)
    /\ UNCHANGED nonGi

NextGetItems ==
    \/ \E enabled \in BOOLEAN : GiCall(enabled)
    \/ \E api \in ApiOutcomes, crawl \in CrawlTierOutcomes : GiBody(api, crawl)

(***************************************************************************)
(* QUEUE PRIORITY  --  _calculate_celery_priority and the enqueue loop of   *)
(* continuous_queue_refill, worker/celery_tasks.py                          *)
(***************************************************************************)
\* check_priority / 10 taken as the queue priority
TenthOfScore(product_priority) == product_priority \div 10

\* _calculate_celery_priority
CalculateCeleryPriority(product_priority) ==
    IF product_priority >= 90 THEN 10
    ELSE IF product_priority >= 80 THEN 9
    ELSE IF product_priority >= 70 THEN 8
    ELSE IF product_priority >= 60 THEN 7
    ELSE IF product_priority >= 50 THEN 6
    ELSE IF product_priority >= 40 THEN 5
    ELSE IF product_priority >= 30 THEN 4
    ELSE IF product_priority >= 20 THEN 3
    ELSE IF product_priority >= 10 THEN 2
    ELSE 1

\* the scores on both sides of every step of the mapping
EnqPriorities == {10 * k : k \in 0..10} \cup {10 * k + 9 : k \in 0..9}

\* active products, never checked or checked just now
EnqRows ==
    [check_priority : EnqPriorities, is_available : {TRUE}, is_active : {TRUE},
     has_active_deal : {FALSE}, last_checked_at : {NULL, UtcNow}]

NoEnq == [cycles |-> 0, all_products |-> {}, messages |-> {}]

InitEnqVars == enq = NoEnq

\* continuous_queue_refill: the six tier queries and one apply_async per
\* selected product; messages are the jobs this cycle put on the queue
RefillEnqueue ==
    /\ enq.cycles < MaxCycles
    /\ \E critical \in RefillTier(90, 101, 15, 200),
          very_high \in RefillTier(80, 90, 30, 300),
          high \in RefillTier(70, 80, 60, 400),
          medium_high \in RefillTier(50, 70, 120, 500),
          medium \in RefillTier(30, 50, 240, 600),
          low \in RefillTier(0, 30, 480, 800) :
          LET all_products ==
                  critical \cup very_high \cup high \cup medium_high \cup medium \cup low
          IN  enq' = [cycles |-> enq.cycles + 1,
                      all_products |-> all_products,
                      messages |-> {[product_id |-> p,
                                     check_priority |-> catalog[p].check_priority,
                                     priority |-> CalculateCeleryPriority(
                                                      catalog[p].check_priority)] :
                                    p \in all_products}]
    /\ UNCHANGED nonEnq

NextEnqueue == RefillEnqueue

(***************************************************************************)
(* BATCHES  --  SmartBatchProcessor._create_batches,                        *)
(* worker/services/smart_batch_processor.py                                 *)
(***************************************************************************)
\* every id in one batch
OneBatch(product_ids, bsize) ==
    << [product_ids |-> product_ids, size |-> Len(product_ids), batch_number |-> 1] >>

\* for i in range(i, len(product_ids), self.batch_size): batches.append(...)
RECURSIVE CreateBatchesFrom(_, _, _)
CreateBatchesFrom(product_ids, bsize, i) ==
    IF i >= Len(product_ids) THEN << >>
    ELSE LET batch_ids == SubSeq(product_ids, i + 1, Min(i + bsize, Len(product_ids)))
         IN  << [product_ids |-> batch_ids,
                 size |-> Len(batch_ids),
                 batch_number |-> (i \div bsize) + 1] >>
             \o CreateBatchesFrom(product_ids, bsize, i + bsize)

\* _create_batches
CreateBatches(product_ids, bsize) == CreateBatchesFrom(product_ids, bsize, 0)

\* lists of product ids, repeated ids included, up to MaxIds long
IdLists == UNION {[1..n -> 1..NumIds] : n \in 0..MaxIds}

BatchSizes == 1..MaxBatchSize

NoBatches == [pc |-> "idle", product_ids |-> << >>, bsize |-> 1, batches |-> << >>]

InitCbVars == cb = NoBatches

\* a call of _create_batches on a processor of batch size bsize
CreateBatchesCall(product_ids, bsize) ==
    /\ cb.pc = "idle"
    /\ cb' = [pc |-> "done", product_ids |-> product_ids, bsize |-> bsize,
              batches |-> CreateBatches(product_ids, bsize)]
    /\ UNCHANGED nonCb

\* the caller has taken the batches; the processor is ready for its next call
CreateBatchesReturn ==
    /\ cb.pc = "done"
    /\ cb' = NoBatches
    /\ UNCHANGED nonCb

NextBatches ==
    \/ \E product_ids \in IdLists, bsize \in BatchSizes :
          CreateBatchesCall(product_ids, bsize)
    \/ CreateBatchesReturn

(***************************************************************************)
(* PRIORITY SWEEP  --  update_product_priorities, worker/celery_tasks.py    *)
(*                                                                          *)
(* The sweep reads the products table in pages of sweep_batch_size rows     *)
(* with OFFSET and LIMIT and no ORDER BY, scores every row of the page and  *)
(* commits.  The order of the rows of a query without ORDER BY is not       *)
(* fixed by the database and changes when rows are rewritten, so every      *)
(* page is taken from some order of the table.                              *)
(***************************************************************************)
\* the rows of the products table
SweepProducts == DOMAIN sw.check_priority

\* the columns calculate_priority reads, for a product with and without
\* reviews, checked just now or never
SweepInputs ==
    [product : [review_count : {0, 5000}, rating : {0}, hours_since_check : {NULL, 0},
                days_since_creation : {NULL}],
     has_active_deal : BOOLEAN,
     history : {<< >>}]

\* check_priority of a row written by the backend, whose model has no such
\* column (NULL), and of a row written by the worker (default=50)
InsertedPriorities == {NULL, 50}

\* the orders in which a query may return the rows of the table
TableOrders ==
    {order \in [SweepProducts -> SweepProducts] :
        \A i, j \in SweepProducts : i # j => order[i] # order[j]}

\* query.offset(offset).limit(n).all() on a table returned in this order
Page(order, offset, n) ==
    {order[i] : i \in {j \in DOMAIN order : j > offset /\ j <= offset + n}}

SweepIdle(check_priority) ==
    [pc |-> "idle", offset |-> 0, total_updated |-> 0, check_priority |-> check_priority]

InitSwVars == sw = SweepIdle(<< >>)

\* a product is added between two sweeps
ProductInsert(check_priority) ==
    /\ sw.pc = "idle"
    /\ Len(sw.check_priority) < NumSweepProducts
    /\ sw' = [sw EXCEPT !.check_priority = Append(@, check_priority)]
    /\ UNCHANGED nonSw

\* update_product_priorities is called by the scheduler
SweepStart ==
    /\ sw.pc \in {"idle", "done"}
    /\ sw' = [SweepIdle(sw.check_priority) EXCEPT !.pc = "page"]
    /\ UNCHANGED nonSw

\* one turn of the while loop: the page query, calculate_priority for each
\* of its products, commit; an empty page ends the sweep
SweepPage ==
    /\ sw.pc = "page"
    /\ \E order \in TableOrders :
          LET products_ == Page(order, sw.offset, sweep_batch_size)
          IN  IF products_ = {}
              THEN sw' = [sw EXCEPT !.pc = "done"]
              ELSE \E inputs \in [products_ -> SweepInputs] :
                      sw' = [sw EXCEPT
                               !.check_priority =
                                   [p \in SweepProducts |->
                                       IF p \in products_
                                       THEN CalculatePriority(inputs[p].product,
                                                inputs[p].has_active_deal,
                                                inputs[p].history)
                                       ELSE @[p]],
                               !.total_updated = @ + Cardinality(products_),
                               !.offset = @ + sweep_batch_size]
    /\ UNCHANGED nonSw

NextSweep ==
    \/ \E check_priority \in InsertedPriorities : ProductInsert(check_priority)
    \/ SweepStart
    \/ SweepPage

(***************************************************************************)
(* ONE TIER OVER MANY CYCLES  --  continuous_queue_refill and               *)
(* check_product_price, worker/celery_tasks.py                              *)
(*                                                                          *)
(* The products of one priority band: each cycle takes up to tier_limit of  *)
(* the due ones with .limit(n).all() and no order_by, a worker checks a     *)
(* queued product and stamps last_checked_at, and the interval of the tier  *)
(* makes a checked product due again.                                       *)
(***************************************************************************)
TqProducts == 1..NumTqProducts

InitTqVars == tq = [last_checked |-> [p \in TqProducts |-> "never"], queue |-> {}]

\* or_(last_checked_at == None, last_checked_at < utcnow() - interval)
TierDue == {p \in TqProducts : tq.last_checked[p] # "fresh"}

\* one cycle of continuous_queue_refill on this tier, with .limit(limit)
TierRefill(limit) ==
    /\ \E selected \in {T \in SUBSET TierDue :
                           Cardinality(T) = Min(limit, Cardinality(TierDue))} :
          tq' = [tq EXCEPT !.queue = @ \cup selected]
    /\ UNCHANGED nonTq

\* check_product_price of a queued product: last_checked_at = utcnow()
TierCheck(p) ==
    /\ p \in tq.queue
    /\ tq' = [tq EXCEPT !.queue = @ \ {p}, !.last_checked[p] = "fresh"]
    /\ UNCHANGED nonTq

\* the interval of the tier passes for a checked product
TierIntervalPasses(p) ==
    /\ tq.last_checked[p] = "fresh"
    /\ tq' = [tq EXCEPT !.last_checked[p] = "stale"]
    /\ UNCHANGED nonTq

NextTiers ==
    \/ TierRefill(tier_limit)
    \/ \E p \in TqProducts : TierCheck(p)
    \/ \E p \in TqProducts : TierIntervalPasses(p)

\* the beat schedule runs the cycle again and again, a worker takes every
\* job that is on the queue, and time goes on
FairTiers ==
    /\ WF_vars(TierRefill(tier_limit))
    /\ \A p \in TqProducts : WF_vars(TierCheck(p))
    /\ \A p \in TqProducts : WF_vars(TierIntervalPasses(p))

(***************************************************************************)
(* RATE LIMITER, ERROR PATH  --  the except branch of                       *)
(* RateLimiter.wait_if_needed, services/amazon_client.py                    *)
(***************************************************************************)
\* the positions of wait_if_needed at which it calls the store: SET lock NX,
\* GET key, SET key, DELETE lock
StoreCalls == {"loop", "locked", "update", "release"}

\* a call of the store raises: the except branch deletes the lock key,
\* unless that call fails too, and wait_if_needed returns
RLError(w) ==
    /\ rl[w].pc \in StoreCalls
    /\ lock' \in {0, lock}
    /\ rl' = [rl EXCEPT ![w] = RLIdle]
    /\ Permit
    /\ UNCHANGED key
    /\ UNCHANGED nonRL

NextRLErr ==
    \/ \E w \in Workers : RLCall(w)
    \/ \E w \in Workers : RLStep(w)
    \/ \E w \in Workers : RLError(w)
    \/ Tick

(***************************************************************************)
(* CRAWLER PACING  --  AmazonCrawler._wait_if_needed_async under the        *)
(* semaphore of get_product_async, services/amazon_crawler.py               *)
(*                                                                          *)
(* Time is in whole seconds.  The coroutines of one asyncio.gather run on   *)
(* one event loop: what a coroutine does between two awaits is one step.    *)
(***************************************************************************)
Coroutines == 1..NumCoroutines

\* random.uniform(self.min_interval, self.max_interval), to the second
RequiredIntervals == crawler_min_interval..crawler_max_interval

PaceIdle == [pc |-> "queued", wake |-> 0]

InitPaceVars ==
    pace = [now |-> FirstCrawlAt, last_request_time |-> 0, semaphore |-> crawler_semaphore,
            co |-> [c \in Coroutines |-> PaceIdle],
            last_start |-> NULL, min_gap |-> crawler_min_interval]

\* the coroutine goes on to client.get(url): a crawl request starts now
PaceStart(c, p) ==
    [p EXCEPT !.last_request_time = p.now,
              !.co[c] = [pc |-> "request", wake |-> 0],
              !.last_start = p.now,
              !.min_gap = IF p.last_start = NULL THEN @ ELSE Min(@, p.now - p.last_start)]

\* async with self.semaphore, then _wait_if_needed_async up to its await:
\* elapsed is taken from last_request_time as it is now
PaceEnter(c, required_interval) ==
    /\ pace.co[c].pc = "queued"
    /\ pace.semaphore > 0
    /\ LET admitted == [pace EXCEPT !.semaphore = @ - 1]
           elapsed == pace.now - pace.last_request_time
       IN  pace' = IF elapsed < required_interval
                   THEN [admitted EXCEPT
                           !.co[c] = [pc |-> "sleep",
                                      wake |-> pace.now + (required_interval - elapsed)]]
                   ELSE PaceStart(c, admitted)
    /\ UNCHANGED nonPace

\* asyncio.sleep(sleep_time) returns: last_request_time = time.time() and the
\* request is sent
PaceWake(c) ==
    /\ pace.co[c].pc = "sleep"
    /\ pace.now >= pace.co[c].wake
    /\ pace' = PaceStart(c, pace)
    /\ UNCHANGED nonPace

\* the response arrives or the request fails: the semaphore is released
PaceResponse(c) ==
    /\ pace.co[c].pc = "request"
    /\ pace' = [pace EXCEPT !.co[c] = [pc |-> "done", wake |-> 0], !.semaphore = @ + 1]
    /\ UNCHANGED nonPace

\* a second passes
PaceTick ==
    /\ pace.now < MaxClock
    /\ pace' = [pace EXCEPT !.now = @ + 1]
    /\ UNCHANGED nonPace

NextPace ==
    \/ \E c \in Coroutines, required_interval \in RequiredIntervals :
          PaceEnter(c, required_interval)
    \/ \E c \in Coroutines : PaceWake(c)
    \/ \E c \in Coroutines : PaceResponse(c)
    \/ PaceTick

(***************************************************************************)
(* BACKEND UPDATE PATH  --  update_product_prices_batch and                 *)
(* update_product_from_amazon (backend/app/tasks.py), check_and_create_deal *)
(* (backend/app/api/products_fetch.py), send_deal_notification              *)
(* (backend/app/services/telegram.py)                                       *)
(*                                                                          *)
(* session is what the SQLAlchemy session of the task holds uncommitted,    *)
(* committed is what the database holds of this batch.                      *)
(***************************************************************************)
BkItems == 1..NumBkItems

\* send_deal_notification: the message was sent (commit, True), it was not
\* sent (no token, or send_telegram_message reported a failure: False), or a
\* statement of its try block raised (rollback, False)
NotifyOutcomes == {"sent", "not_sent", "raised"}

\* the changes update_product_from_amazon puts on the session for a product
ProductChanges(p) == {<<p, "product">>, <<p, "price_history">>}

BkIdle == [pc |-> "idle", k |-> 0, session |-> {}, committed |-> {},
           action |-> [p \in BkItems |-> "none"]]

InitBkVars == bk = BkIdle

\* update_product_prices_batch starts on a batch of ASINs
BkBatchStart ==
    /\ bk.pc \in {"idle", "done"}
    /\ bk' = [BkIdle EXCEPT !.pc = "batch"]
    /\ UNCHANGED nonBk

\* what update_product_from_amazon finds for an item: no price (only the
\* availability and the timestamp are written), or a price and the action of
\* check_and_create_deal
DealResults == {"no_price", "none", "updated", "created"}

\* update_product_from_amazon of the next item: the product and its price
\* history, then check_and_create_deal
BkUpdateItem(deal_result, notify) ==
    /\ bk.pc = "batch"
    /\ bk.k < NumBkItems
    /\ LET p == bk.k + 1
           flushed == bk.session \cup ProductChanges(p) \cup {<<p, "deal">>}
       IN  bk' = IF deal_result = "no_price"
                 THEN [bk EXCEPT !.k = p, !.session = @ \cup {<<p, "product">>}]
                 ELSE IF deal_result = "none"
                 THEN [bk EXCEPT !.k = p, !.session = @ \cup ProductChanges(p)]
                 ELSE IF deal_result = "updated"
                 THEN [bk EXCEPT !.k = p, !.action[p] = "updated",
                                 !.session = @ \cup ProductChanges(p) \cup {<<p, "deal">>}]
                 ELSE [bk EXCEPT
                         !.k = p,
                         !.action[p] = "created",
                         \* db.commit() of the sent branch, db.rollback() of
                         \* the except branch
                         !.session = IF notify = "not_sent" THEN flushed ELSE {},
                         !.committed = IF notify = "sent" THEN @ \cup flushed ELSE @]
    /\ UNCHANGED nonBk

\* self.db.commit() after the items of the batch
BkCommit ==
    /\ bk.pc = "batch"
    /\ bk.k = NumBkItems
    /\ bk' = [bk EXCEPT !.pc = "done", !.committed = @ \cup bk.session, !.session = {}]
    /\ UNCHANGED nonBk

NextBackend ==
    \/ BkBatchStart
    \/ \E deal_result \in DealResults, notify \in NotifyOutcomes :
          BkUpdateItem(deal_result, notify)
    \/ BkCommit

(***************************************************************************)
(* SPECIFICATIONS                                                           *)
(***************************************************************************)
\* the subsystems that stand alone, at rest
InitExtVars ==
    /\ InitRtVars
    /\ InitRunVars
    /\ InitTkVars
    /\ InitSmVars
    /\ InitMgrVars
    /\ InitGiVars
    /\ InitEnqVars
    /\ InitCbVars
    /\ InitSwVars
    /\ InitTqVars
    /\ InitPaceVars
    /\ InitBkVars

InitAuxVars ==
    /\ InitSelVars
    /\ InitPxVars
    /\ InitCrVars
    /\ InitPrVars
    /\ InitFcVars
    /\ InitLimVars
    /\ InitExtVars

\* a deal as check_product_price opens it on the third observation [100, 100, 80]
OpenedDeal ==
    [product_id |-> 1, original_price |-> TL(100), deal_price |-> TL(80),
     discount_amount |-> TL(20), discount_percentage |-> 20 * 100,
     is_active |-> TRUE, is_published |-> FALSE, telegram_sent |-> FALSE]

\* the pipeline at rest with that deal waiting for the admin's review
InitNotify ==
    /\ InitRLVars
    /\ InitAnVars
    /\ products = [p \in Products |->
                     [TrackedProduct EXCEPT !.current_price = IF p = 1 THEN TL(80) ELSE TL(100),
                                        !.last_checked = "fresh",
                                        !.check_count = 3]]
    /\ price_history = [p \in Products |->
                          IF p = 1
                          THEN <<FirstRow, FirstRow,
                                 [price |-> TL(80), is_available |-> TRUE, today |-> TRUE]>>
                          ELSE <<FirstRow, FirstRow,
                                 [price |-> TL(100), is_available |-> TRUE, today |-> TRUE]>>]
    /\ deals = <<OpenedDeal>>
    /\ cq = [p \in Products |-> 0]
    /\ cw = [w \in Workers |-> CWIdle]
    /\ nq = << >>
    /\ worklogs = << >>
    /\ control_file = DefaultControl
    /\ wc = [x \in Processes |-> DefaultControl]
    /\ channel = [d \in DealIds |-> 0]
    /\ bq = << >>
    /\ fq = 0
    /\ lastEval = [p \in Products |-> NoEval]
    /\ lastCycle = NoCycle
    /\ InitAuxVars

InitAnalyze ==
    /\ InitRLVars
    /\ InitSysVars
    /\ an \in AnInputs
    /\ InitAuxVars

\* the selection queries on every catalog
InitSelect ==
    /\ InitRLVars
    /\ InitAnVars
    /\ InitSysVars
    /\ catalog \in [CatalogIds -> CatalogRows]
    /\ sel = NoSel
    /\ InitPxVars
    /\ InitCrVars
    /\ InitPrVars
    /\ InitFcVars
    /\ InitLimVars
    /\ InitExtVars

\* tables with more due products than a limit
InitOldest ==
    /\ InitRLVars
    /\ InitAnVars
    /\ InitSysVars
    /\ catalog \in [1..NumOldest -> OldestRows]
    /\ sel = NoSel
    /\ InitPxVars
    /\ InitCrVars
    /\ InitPrVars
    /\ InitFcVars
    /\ InitLimVars
    /\ InitExtVars

\* tables of products of every score band
InitEnqueue ==
    /\ InitRLVars
    /\ InitAnVars
    /\ InitSysVars
    /\ catalog \in [1..NumEnqRows -> EnqRows]
    /\ sel = NoSel
    /\ InitPxVars
    /\ InitCrVars
    /\ InitPrVars
    /\ InitFcVars
    /\ InitLimVars
    /\ InitExtVars

\* the proxy pool as configured: no route, or up to NumRoutes of them
InitProxy ==
    /\ InitRLVars
    /\ InitAnVars
    /\ InitSysVars
    /\ InitSelVars
    /\ proxies \in {[i \in 1..n |-> NewProxy] : n \in 0..NumRoutes}
    /\ current_index = 0
    /\ px = NoCalls
    /\ InitCrVars
    /\ InitPrVars
    /\ InitFcVars
    /\ InitLimVars
    /\ InitExtVars

\* calculate_priority on every product
InitPriority ==
    /\ InitRLVars
    /\ InitAnVars
    /\ InitSysVars
    /\ InitSelVars
    /\ InitPxVars
    /\ InitCrVars
    /\ pr \in PrInputs
    /\ InitFcVars
    /\ InitLimVars
    /\ InitExtVars

Init ==
    /\ InitRLVars
    /\ InitAnVars
    /\ InitSysVars
    /\ InitAuxVars

SpecRL == Init /\ [][NextRL]_vars

SpecRLLive == Init /\ [][NextRLCrash]_vars /\ FairRL

SpecDeal == Init /\ [][NextDeal]_vars

SpecBatch == Init /\ [][NextBatch]_vars

SpecCtl == Init /\ [][NextCtl]_vars

SpecNotify == InitNotify /\ [][NextNotify]_vars

SpecAnalyze == InitAnalyze /\ [][NextAnalyze]_vars

SpecSelect == InitSelect /\ [][NextSelect]_vars

SpecProxy == InitProxy /\ [][NextProxy]_vars

SpecCrawl == InitProxy /\ [][NextCrawl]_vars /\ FairCrawl

SpecPriority == InitPriority /\ [][NextPriority]_vars

SpecClient == Init /\ [][NextClient]_vars

SpecLim == Init /\ [][NextLim]_vars

SpecRetry == Init /\ [][NextRetry]_vars

SpecRun == Init /\ [][NextRun]_vars

SpecJobs == Init /\ [][NextJobs]_vars

SpecOldest == InitOldest /\ [][NextOldest]_vars

SpecBackend == Init /\ [][NextBackend]_vars

SpecPace == Init /\ [][NextPace]_vars

SpecRLErr == Init /\ [][NextRLErr]_vars

SpecTiers == Init /\ [][NextTiers]_vars /\ FairTiers

SpecSweep == Init /\ [][NextSweep]_vars

SpecBatches == Init /\ [][NextBatches]_vars

SpecEnqueue == InitEnqueue /\ [][NextEnqueue]_vars

SpecSeq == Init /\ [][NextSeq]_vars

SpecGetItems == Init /\ [][NextGetItems]_vars

SpecCancel == Init /\ [][NextCancel]_vars

SpecSem == Init /\ [][NextSem]_vars

SpecMgr == Init /\ [][NextMgr]_vars

(***************************************************************************)
(* PROPERTIES                                                               *)
(***************************************************************************)

\* C1: any two returns of wait_if_needed, over all callers sharing the store,
\* are at least min_interval apart.
C1_GlobalInterval == minGap >= min_interval

\* C2: in every reachable state each product has at most one deal with
\* is_active = true, whatever the interleaving of the check_product_price jobs.
C2_OneActiveDeal ==
    \A p \in Products : Cardinality(ActiveDealsOf(deals, p)) <= 1

\* C3: at most one message is posted to the channel per deal, whatever the
\* interleaving of the send_deal_notification jobs and the sender jobs.
C3_AtMostOneMessage ==
    \A d \in DealIds : channel[d] <= 1

\* C4: a deal is marked telegram_sent only once a send for it has succeeded; a
\* deal whose sends all failed is still unmarked.
C4_SentOnlyAfterSuccess ==
    \A d \in 1..Len(deals) : deals[d].telegram_sent => channel[d] >= 1

\* a deal is marked after its one successful send, with a sender job on record
C4_Witness ==
    \E d \in 1..Len(deals) :
        /\ deals[d].telegram_sent
        /\ channel[d] = 1
        /\ Len(worklogs) >= 1

\* C5: a scheduler cycle that runs while the process holds scheduler_enabled =
\* false enqueues nothing, runs no job and records exactly one WorkLog entry
\* with status skipped.
C5_PausedCycleIsNoOp ==
    (lastCycle.name # "none" /\ ~lastCycle.scheduler_enabled) =>
        /\ lastCycle.enqueued = 0
        /\ ~lastCycle.ran
        /\ lastCycle.skipped_logs = 1

\* C6: a cycle of a running process acts on the value of scheduler_enabled that
\* the control file holds when the cycle starts: a no-op after a pause, a
\* dispatch after a resume.
C6_CycleObservesFile ==
    lastCycle.name \in {"continuous_queue_refill", "schedule_product_fetch",
                        "schedule_notifications", "run_job"} =>
        /\ lastCycle.scheduler_enabled = lastCycle.file_enabled
        /\ lastCycle.ran = lastCycle.file_enabled

\* C7: when the product already has an active deal and the evaluation brings a
\* price below that deal's price, create_or_update_deal creates nothing, writes
\* deal_price, original_price, discount_amount and discount_percentage of that
\* same deal, and the product has as many deals as before.
C7_UpdateInPlace ==
    \A p \in Products :
        LET e == lastEval[p]
        IN  (e.is_deal /\ e.active_before # 0 /\ e.price < e.deal_price_before) =>
                /\ e.op = "update"
                /\ e.deal = e.active_before
                /\ Cardinality(DealsOf(deals, p)) = e.n_before
                /\ deals[e.deal].deal_price = e.price
                /\ deals[e.deal].original_price = e.info.historical_avg
                /\ deals[e.deal].discount_amount = e.info.historical_avg - e.price
                /\ deals[e.deal].discount_percentage = e.info.discount_vs_avg

\* an open deal at 80 was updated by a check that found 60
C7_Witness ==
    \E p \in Products :
        /\ lastEval[p].op = "update"
        /\ lastEval[p].deal_price_before = TL(80)
        /\ lastEval[p].price = TL(60)
        /\ deals[lastEval[p].deal].deal_price = TL(60)
        /\ deals[lastEval[p].deal].is_active

\* C8: an evaluation of a product with an open deal that finds the product
\* unavailable, or at a price that no longer qualifies, leaves that deal with
\* is_active = false.
C8_ClosedOnNextEvaluation ==
    \A p \in Products :
        LET e == lastEval[p]
        IN  (e.status \in {"success", "unavailable"} /\ e.active_before # 0 /\ ~e.is_deal) =>
                ~deals[e.active_before].is_active

\* C9: a check that fetches 80 for a product whose two prior observations are
\* 100 and 100 opens a deal with reference price 100 and discount_percentage 20.
C9_OpensDealAt20 ==
    \A p \in Products :
        LET e == lastEval[p]
        IN  (/\ e.status = "success"
             /\ e.prior = <<TL(100), TL(100)>>
             /\ e.price = TL(80)
             /\ e.active_before = 0) =>
                /\ e.op = "create"
                /\ deals[e.deal].original_price = TL(100)
                /\ deals[e.deal].discount_percentage = 20 * 100

\* C10: analyze_product returns is_deal = true only if the product is available
\* and has a price, the 30-day window holds at least 2 observations, the discount
\* versus the historical average is at least deal_threshold, and deal_score is at
\* least 45 when the window holds at most 3 observations and at least 50 otherwise.
C10_IsDealOnlyIf ==
    (an.called /\ an.result.is_deal) =>
        LET window == GetPriceHistory(an.rows, an.old)
            total == SumPrice(PricesOf(window))
            n == Len(PricesOf(window))
        IN  /\ an.product.is_available
            /\ an.product.current_price # 0
            /\ Len(window) >= 2
            \* (avg - current) / avg >= deal_threshold / 100, with avg = total / n
            /\ n > 0
            /\ (total - n * an.product.current_price) * 100 >= deal_threshold * total
            /\ an.result.discount_vs_avg >= deal_threshold * 100
            /\ an.result.deal_score >= (IF Len(window) <= 3 THEN 45 ELSE 50)

\* a deal found with the minimum score of 45 on a window of 3 observations, the
\* oldest row of the product lying outside the window
C10_Witness ==
    /\ an.called
    /\ an.result.is_deal
    /\ Len(GetPriceHistory(an.rows, an.old)) = 3
    /\ an.result.deal_score = 45
    /\ an.old > 0

\* C11: no selection operation returns a product whose last_checked_at is newer
\* than now minus the interval of the query that returned it.
C11_NotBeforeInterval ==
    \A p \in sel.returned :
        \/ catalog[p].last_checked_at = NULL
        \/ catalog[p].last_checked_at <= UtcNow - sel.interval[p]

\* a product checked one minute more than its interval ago is returned
C11_Witness ==
    \E p \in sel.returned :
        /\ catalog[p].last_checked_at # NULL
        /\ catalog[p].last_checked_at = UtcNow - sel.interval[p] - 1

\* C12: the tier queries of SmartBatchProcessor and of continuous_queue_refill
\* select a never-checked product of the tier, and never a product with
\* is_available = false.
C12_NullSelectedUnavailableNot ==
    sel.op \in {"get_high_priority_batches", "get_medium_priority_batches",
                "get_low_priority_batches", "continuous_queue_refill"} =>
        \A p \in CatalogIds :
            /\ p \in sel.returned => catalog[p].is_available
            /\ (/\ catalog[p].is_available
                /\ catalog[p].last_checked_at = NULL
                /\ sel.op = "get_high_priority_batches" => catalog[p].check_priority >= 80
                /\ sel.op = "get_medium_priority_batches" =>
                       catalog[p].check_priority >= 40 /\ catalog[p].check_priority < 80
                /\ sel.op = "get_low_priority_batches" => catalog[p].check_priority < 40
                /\ sel.op = "continuous_queue_refill" => catalog[p].is_active)
               => p \in sel.returned

\* C13: a call of get_products_batch on a client that was constructed without
\* credentials (enabled = FALSE) ends with no call of the batch API and no
\* retry, and returns, for the requested identifiers, the snapshots the
\* crawler produced.
C13_DisabledServedByCrawler ==
    (fc.pc = "done" /\ ~fc.credentials) =>
        /\ ~fc.enabled
        /\ fc.api_calls = 0
        /\ fc.attempt = 1
        /\ fc.outcome = "returned"
        /\ fc.items = {<<a, "crawler">> : a \in fc.crawled}

\* C14: a call of get_proxy that begins with every configured route at 5
\* failures or more returns a route and leaves every failure count at 0; and
\* no call of get_proxy returns None while a route is configured.
C14_AllFailedResets ==
    px.called =>
        /\ px.all_failed =>
              /\ px.returned \in 1..Len(proxies)
              /\ \A i \in 1..Len(px.after) : px.after[i].failures = 0
        /\ Len(proxies) > 0 => px.returned # NoRoute

\* a call that began with all three routes over the limit has returned
C14_Witness ==
    /\ px.called
    /\ px.all_failed
    /\ Len(px.after) = NumRoutes
    /\ proxies = px.after

\* C15: a call of get_proxy that begins with a route under 5 failures returns
\* a route that was under 5 failures; and the latest k consecutive calls that
\* all began with the same k routes under the limit returned k different
\* routes, each of them one of the k.
C15_RoundRobinHealthy ==
    (px.called /\ px.healthy) =>
        /\ px.failures < failure_limit
        /\ px.returned \in px.run_set
        /\ \A i, j \in 1..Len(px.run) : i # j => px.run[i] # px.run[j]
        /\ \A i \in 1..Len(px.run) : px.run[i] \in px.run_set
        /\ Len(px.run) <= Cardinality(px.run_set)

\* two routes are under the limit and one over it, and two calls in a row
\* have returned the two
C15_Witness ==
    /\ px.called
    /\ px.healthy
    /\ Cardinality(px.run_set) = 2
    /\ Len(px.run) = 2
    /\ Len(px.after) = NumRoutes
    /\ \E i \in 1..NumRoutes : px.after[i].failures >= failure_limit

\* C16: whatever the review count, rating, price history, deal state,
\* last_checked_at and created_at of the product, calculate_priority returns
\* an integer from 0 to 100.
C16_PriorityInRange ==
    pr.called => pr.result \in 0..100

\* a product with ten million reviews, an active deal and no check so far,
\* whose uncapped score is over 100, has been scored
C16_Witness ==
    /\ pr.called
    /\ pr.product.review_count = 10000000
    /\ pr.has_active_deal
    /\ pr.product.hours_since_check = NULL
    /\ pr.result = 100

C18_IntervalWithoutStore ==
    lim.last \in {"local", "error"} => lim.last_gap >= min_interval

\* C19: a call of get_product_async makes at most max_retries + 1 requests
\* (3 with the default) and then returns, so every call ends; after a 404 it
\* has returned None, without a further attempt.
C19_BoundedAttempts ==
    /\ [](cr.requests <= cr.max_retries + 1)
    /\ [](cr.last = "404" => (cr.pc = "done" /\ cr.result = "None"))
    /\ (cr.pc \in {"attempt", "request", "backoff"}) ~> (cr.pc = "done")

\* a call with the default max_retries has failed three times and returned
C19_Witness ==
    /\ cr.pc = "done"
    /\ cr.max_retries = default_max_retries
    /\ cr.requests = default_max_retries + 1
    /\ cr.last \in {"http_error", "exception", "parse_error"}
    /\ cr.result = "None"

\* C20: the commit of a check_product_price job whose snapshot had no price
\* leaves the product unavailable with check_count one higher (when no other
\* job has changed the row since this one read it) and last_checked_at
\* fresh, ends with the status "unavailable", and queues no job.
C20_NoPriceIsUnavailable ==
    [][\A w \in Workers :
         (/\ cw[w].pc = "evaluated"
          /\ cw[w].data
          /\ cw[w].price = 0
          /\ cw'[w].pc = "idle") =>
             LET p == cw[w].product
             IN  /\ products[p] = cw[w].loaded =>
                       /\ products'[p].is_available = FALSE
                       /\ products'[p].check_count = products[p].check_count + 1
                 /\ products'[p].last_checked = "fresh"
                 /\ lastEval'[p].status = "unavailable"
                 /\ cq' = cq
                 /\ nq' = nq]_vars

\* a product that was available has been committed as unavailable by a job
\* whose snapshot had no price
C20_Witness ==
    \E p \in Products :
        /\ lastEval[p].status = "unavailable"
        /\ lastEval[p].price = 0
        /\ ~products[p].is_available
        /\ products[p].last_checked = "fresh"
        /\ products[p].check_count > 0

\* C21: when a check_product_price job ends as a failed check, by the commit
\* of "no data" or by an exception after the last retry, the product's
\* last_checked_at is fresh, so that the refill does not select it.
C21_FailedCheckAdvances ==
    [][\A w \in Workers :
         (/\ cw[w].pc = "evaluated"
          /\ cw'[w].pc = "idle"
          /\ \/ rt' = rt /\ cw[w].status = "no_data"
             \/ rt[cw[w].product] = task_max_retries /\ rt'[cw[w].product] = 0) =>
             products'[cw[w].product].last_checked = "fresh"]_vars

\* C22: when the update of one product of a batch raises, every other product
\* of that batch for which data was fetched is updated and its update is
\* committed by the end of the run.
C22_SiblingsCommitted ==
    run.pc = "done" =>
        \A p \in run.raised, q \in run.fetched \ run.raised :
            (\E b \in 0..NumRunProducts :
                {p, q} \subseteq BatchSet([run EXCEPT !.i = b * batch_size])) =>
                run.committed[q] = "updated"

\* C26: the counts that run_job writes to the WorkLog after PriceChecker.run
\* satisfy items_processed = items_updated + items_failed = the number of
\* products selected for the cycle.
C26_CountsAddUp ==
    run.pc = "done" =>
        /\ run.log.items_processed = run.log.items_updated + run.log.items_failed
        /\ run.log.items_processed = Len(run.products_to_check)

\* C23: a job that has begun executing is never terminated by cancel_task:
\* from "started" a task goes only to "success" or "failure".
C23_StartedRunsToEnd ==
    [][\A t \in TaskIds :
         tk.state[t] = "started" => tk'.state[t] \in {"started", "success", "failure"}]_vars

\* C24: at any time at most 2 crawl requests are in flight, counted over all
\* worker processes and all AmazonCrawler instances.
C24_TwoInFlight == Cardinality(InFlight) <= semaphore_value

\* C25: a route marked failed 5 times in total across the worker processes
\* is skipped by get_proxy in every process: no process counts it among its
\* available routes.
C25_SharedFailures ==
    \A r \in 1..NumMgrRoutes :
        TotalFailures(r, NumMgrProcs) >= failure_limit =>
            \A p \in MgrProcs : r \notin HealthySet(mgr[p].proxies)

\* C27: whenever check_product_price commits a deal it created, a
\* send_deal_notification job carrying the id of that deal is enqueued.
C27_NewDealNotified ==
    [][\A w \in Workers :
         (/\ cw[w].pc = "evaluated"
          /\ cw'[w].pc = "idle"
          /\ Len(deals') = Len(deals) + 1) =>
             /\ Len(nq') = Len(nq) + 1
             /\ nq'[Len(nq')] = Len(deals')]_vars

\* C28: while check_prices is disabled and the scheduler is enabled, in the
\* file and in the state both processes have loaded, no cycle enqueues a
\* check job or checks a price: the refill cycle and WorkerManager's
\* price-check cycle are no-ops.
C28_DisabledJobIsNoOp ==
    [][(/\ control_file.scheduler_enabled
        /\ ~control_file.jobs["check_prices"]
        /\ \A x \in Processes : wc[x] = control_file) =>
            /\ cq' = cq
            /\ products' = products
            /\ price_history' = price_history
            /\ deals' = deals]_vars

\* C29: at any time at most one check job of a product is queued or running.
C29_OneUncompletedJob ==
    \A p \in Products :
        cq[p] + Cardinality({w \in Workers : cw[w].pc # "idle" /\ cw[w].product = p}) <= 1

\* C30: a selection returns at most limit products, and no due product that
\* was checked earlier (or never) is left out while a product checked later
\* is returned.
C30_OldestFirst ==
    sel.op # "none" =>
        /\ Cardinality(sel.returned) <= sel.limit
        /\ \A p \in DueOf(sel.op) \ sel.returned, q \in sel.returned :
               ~CheckedEarlier(catalog[p], catalog[q])

\* C31: once the API tier has reported a rate-limit or throttling error for a
\* request, the request makes no further call of the API tier.
C31_NoApiCallAfterLimit ==
    \A i, j \in 1..Len(gi.tiers) :
        (i < j /\ gi.tiers[i][1] = "api" /\ gi.tiers[i][2] \in RateLimitErrors) =>
            gi.tiers[j][1] # "api"

\* the observations of product p recorded today that have the price of the
\* observation recorded before them
SnapshotsToday(p) ==
    {i \in 2..Len(price_history[p]) :
        /\ price_history[p][i].today
        /\ price_history[p][i].price = price_history[p][i - 1].price}

\* C32: over check_product_price jobs that run one after another, a job
\* that detects a price change appends exactly one observation, with the new
\* price, and on any day at most one observation is appended whose price is
\* that of the observation before it (the daily snapshot).
C32_OneRowPerChange ==
    /\ [](\A p \in Products : Cardinality(SnapshotsToday(p)) <= 1)
    /\ [][\A w \in Workers :
            (/\ cw[w].pc = "evaluated"
             /\ cw'[w].pc = "idle"
             /\ cw[w].status = "success"
             /\ cw[w].loaded.current_price # 0
             /\ Abs(cw[w].price - cw[w].loaded.current_price) > 1) =>
                LET before == price_history[cw[w].product]
                    after == price_history'[cw[w].product]
                IN  /\ Len(after) = Len(before) + 1
                    /\ after[Len(after)].price = cw[w].price
                    /\ after[Len(after)].today]_vars

\* a snapshot was recorded today and a later job of the same day, which
\* found the same price again, added nothing
C32_Witness ==
    \E p \in Products :
        /\ Len(price_history[p]) = 3
        /\ SnapshotsToday(p) = {3}
        /\ products[p].check_count >= 4
        /\ lastEval[p].status = "success"
        /\ lastEval[p].price = TL(100)
        /\ \A w \in Workers : cw[w].pc = "idle"

\* C33: the queue priority is non-decreasing in check_priority and lies in
\* 1..10 for every score of 0..100, and every job of a refill cycle carries
\* the queue priority of its product's score: one job per selected product.
C33_MonotoneStep ==
    /\ \A a, b \in DOMAIN catalog :
          catalog[a].check_priority <= catalog[b].check_priority =>
              CalculateCeleryPriority(catalog[a].check_priority)
                  <= CalculateCeleryPriority(catalog[b].check_priority)
    /\ \A a \in DOMAIN catalog :
          CalculateCeleryPriority(catalog[a].check_priority) \in 1..10
    /\ \A msg \in enq.messages :
          /\ msg.product_id \in enq.all_products
          /\ msg.check_priority = catalog[msg.product_id].check_priority
          /\ msg.priority = (CASE msg.check_priority >= 90 -> 10
                               [] msg.check_priority \in 80..89 -> 9
                               [] msg.check_priority \in 70..79 -> 8
                               [] msg.check_priority \in 60..69 -> 7
                               [] msg.check_priority \in 50..59 -> 6
                               [] msg.check_priority \in 40..49 -> 5
                               [] msg.check_priority \in 30..39 -> 4
                               [] msg.check_priority \in 20..29 -> 3
                               [] msg.check_priority \in 10..19 -> 2
                               [] OTHER -> 1)
    /\ \A p \in enq.all_products :
          Cardinality({msg \in enq.messages : msg.product_id = p}) = 1

\* a cycle enqueued two products of different scores, the higher score with
\* the higher queue priority
C33_Witness ==
    \E m1, m2 \in enq.messages :
        /\ m1.check_priority < m2.check_priority
        /\ m1.priority < m2.priority
        /\ m1.priority = 1

\* the product_ids of the batches b.. of a list of batches, one after another
RECURSIVE ConcatIds(_, _)
ConcatIds(batches, b) ==
    IF b > Len(batches) THEN << >>
    ELSE batches[b].product_ids \o ConcatIds(batches, b + 1)

\* C34: the batches of _create_batches, one after another, are the input
\* list; every batch but the last has batch_size ids and the last has 1 to
\* batch_size; size is the length of the batch; the batch numbers are
\* 1, 2, 3, ...; an empty input gives no batch.
C34_BatchesPartitionInput ==
    cb.pc = "done" =>
        /\ ConcatIds(cb.batches, 1) = cb.product_ids
        /\ \A b \in 1..Len(cb.batches) :
              /\ cb.batches[b].size = Len(cb.batches[b].product_ids)
              /\ cb.batches[b].batch_number = b
              /\ b < Len(cb.batches) => cb.batches[b].size = cb.bsize
              /\ cb.batches[b].size \in 1..cb.bsize
        /\ cb.product_ids = << >> => cb.batches = << >>

\* a list with a repeated id was split into full batches and a shorter last
\* batch
C34_Witness ==
    /\ cb.pc = "done"
    /\ Len(cb.batches) = 3
    /\ cb.bsize = 2
    /\ cb.batches[3].size = 1
    /\ cb.batches[1].product_ids = <<2, 2>>

\* C35: when a sweep of update_product_priorities has ended, the
\* check_priority of every product is a score of 40 to 100.
C35_BaselineFloor ==
    sw.pc = "done" =>
        \A p \in SweepProducts :
            /\ sw.check_priority[p] # NULL
            /\ sw.check_priority[p] \in baseline_priority..100

\* C36: with the cycles, the workers and time going on, every product of a
\* tier that is due for a check is eventually checked, also when the tier
\* has more due products than the limit of a cycle.
C36_NoStarvation ==
    \A p \in TqProducts :
        (tq.last_checked[p] # "fresh") ~> (tq.last_checked[p] = "fresh")

\* the callers between their SET lock NX and their DELETE lock
Holders == {w \in Workers : rl[w].pc \in Holding}

\* C37: at most one caller of wait_if_needed is between its acquisition of
\* the lock and its release, and no caller's DELETE, on the normal path or in
\* the except branch, removes the lock key while another caller holds it.
C37_LockMutex ==
    /\ [](Cardinality(Holders) <= 1)
    /\ [][(lock > 0 /\ lock' = 0 /\ rl' # rl /\ key' = key) =>
             \A w \in Holders : rl'[w].pc = "idle"]_vars

\* C38: any two crawl requests of one AmazonCrawler start at least
\* min_interval seconds apart.
C38_RequestsSpaced == pace.min_gap >= crawler_min_interval

\* C39: when check_and_create_deal has returned action = created for a
\* product, the new deal and the product and price-history changes of that
\* update are on the session or in the database, and they are in the
\* database once the caller has committed.
C39_CreatedDealPersists ==
    \A p \in BkItems :
        bk.action[p] = "created" =>
            /\ ProductChanges(p) \cup {<<p, "deal">>} \subseteq bk.session \cup bk.committed
            /\ bk.pc = "done" => ProductChanges(p) \cup {<<p, "deal">>} \subseteq bk.committed

====
